---- MODULE Spec2Model ----
(***************************************************************************)
(* Model of the clinic-billing -> QuickBooks synchronisation core:         *)
(* CustomerService, ProductService, InvoiceService, ReceiptService, the    *)
(* QuickBooksClient they share and the orchestrator process_csv_file.      *)
(* Text is modelled as sequences of one-character strings so that          *)
(* title-casing, splitting and LIKE '%..%' matching are computed.          *)
(* Error messages are modelled as the set of marker phrases they contain,  *)
(* which is all the code ever asks of them ("Duplicate" in error_msg).     *)
(***************************************************************************)
EXTENDS Integers, Sequences, FiniteSets, TLC

\* ------------------------------------------------------------------ bounds
MaxCalls == 3
MaxFaults == 1        \* service calls made by a harness specification

\* ------------------------------------------------------- program constants
CustomerAttempts == 3   \* for attempt in range(3)
LikeMaxResults == 5     \* MAXRESULTS 5
FallbackTerms == 4      \* (numeric_tokens + tokens)[0:4]

\* Python's None (ids are >= 1)
None == -1

\* {} : a dict with no key
EmptyDict == [k \in {} |-> 0]

\* ------------------------------------------------------------------- text
LetterPairs ==
  {
    <<"a","A">>, <<"b","B">>, <<"c","C">>, <<"d","D">>, <<"e","E">>, <<"f","F">>, <<"g","G">>,
    <<"h","H">>, <<"i","I">>, <<"j","J">>, <<"k","K">>, <<"l","L">>, <<"m","M">>, <<"n","N">>,
    <<"o","O">>, <<"p","P">>, <<"q","Q">>, <<"r","R">>, <<"s","S">>, <<"t","T">>, <<"u","U">>,
    <<"v","V">>, <<"w","W">>, <<"x","X">>, <<"y","Y">>, <<"z","Z">> }

Digits == {"0","1","2","3","4","5","6","7","8","9"}

IsLower(c) == \E p \in LetterPairs : p[1] = c
IsUpper(c) == \E p \in LetterPairs : p[2] = c
IsAlpha(c) == IsLower(c) \/ IsUpper(c)
IsDigit(c) == c \in Digits

\* str.upper() / str.lower() on one character
Upper(c) == IF IsLower(c) THEN (CHOOSE p \in LetterPairs : p[1] = c)[2] ELSE c
Lower(c) == IF IsUpper(c) THEN (CHOOSE p \in LetterPairs : p[2] = c)[1] ELSE c

UpperStr(s) == [i \in 1..Len(s) |-> Upper(s[i])]
LowerStr(s) == [i \in 1..Len(s) |-> Lower(s[i])]

\* str.title(): a letter is upper-cased when it follows a non-letter (or starts
\* the string) and lower-cased otherwise
Title(s) ==
  [i \in 1..Len(s) |->
     IF IsAlpha(s[i])
     THEN IF i = 1 \/ ~IsAlpha(s[i-1]) THEN Upper(s[i]) ELSE Lower(s[i])
     ELSE s[i]]

\* re.split(r'[seps]+', s) without the empty pieces; str.split() when seps = {" "}
RECURSIVE SplitOn(_, _, _)
SplitOn(s, seps, cur) ==
  IF s = <<>> THEN (IF cur = <<>> THEN <<>> ELSE <<cur>>)
  ELSE IF Head(s) \in seps
       THEN (IF cur = <<>> THEN <<>> ELSE <<cur>>) \o SplitOn(Tail(s), seps, <<>>)
       ELSE SplitOn(Tail(s), seps, Append(cur, Head(s)))

RECURSIVE JoinWith(_, _)
JoinWith(ws, sep) ==
  IF ws = <<>> THEN <<>>
  ELSE IF Len(ws) = 1 THEN ws[1]
  ELSE ws[1] \o sep \o JoinWith(Tail(ws), sep)

\* ' '.join(s.split())
NormSpaces(s) == JoinWith(SplitOn(s, {" "}, <<>>), <<" ">>)

\* needle in hay
Contains(hay, needle) ==
  \E i \in 0..(Len(hay) - Len(needle)) : SubSeq(hay, i + 1, i + Len(needle)) = needle

\* str.replace(old, new)
RECURSIVE Replace(_, _, _)
Replace(s, old, new) ==
  IF Len(s) < Len(old) THEN s
  ELSE IF SubSeq(s, 1, Len(old)) = old
       THEN new \o Replace(SubSeq(s, Len(old) + 1, Len(s)), old, new)
       ELSE <<Head(s)>> \o Replace(Tail(s), old, new)

\* ----------------------------------------------------------------- inputs
\* One invoice group as the orchestrator sees it: the rows sharing one
\* invoice number; name, pid and mode are the first row's fields.
KNOWN_INSURANCES == << <<"C","I","C">>, <<"A","P","A">> >>

\* dict.get(k, default)
Get(d, k, default) == IF k \in DOMAIN d THEN d[k] ELSE default

\* s[0:n]
Take(s, n) == SubSeq(s, 1, IF Len(s) < n THEN Len(s) ELSE n)

\* d[k] = v
Put(d, k, v) == [x \in DOMAIN d \cup {k} |-> IF x = k THEN v ELSE d[x]]

Min(S) == CHOOSE x \in S : \A y \in S : x <= y

\* ---------------------------------------------------------------- state
VARIABLES
  qbCustomers,   \* remote: customers, in creation order (Id = position)
  qbIndexed,     \* remote: ids of the customers the query index already shows
  qbItems,       \* remote: catalog items, in creation order
  qbInvoices,    \* remote: invoices, in creation order
  qbReceipts,    \* remote: sales receipts, in creation order
  qbStrictDocNumbers, \* remote: the company rejects a taken document number
  auth,          \* the QuickBooksAuth object: its _tokens and its _lock flag
  faults,        \* remote: how many more requests it may fail to carry out
  batch,         \* process_csv_file: invoice_groups, the groups in key order
  gi,            \* process_csv_file: index in batch of the group in progress
  results,       \* process_csv_file: the result list
  log_stream,    \* app.log_stream: marker phrases of the lines logged so far
  success,       \* what the last process_csv_file call returned
  nbatches,      \* process_csv_file calls started so far
  customer_id,   \* the customer of the document being built
  lines,         \* the lines of the document being built
  existing,      \* create_or_update_invoice: what the lookup returned
  pc,            \* position of the running call
  group,         \* the invoice group being processed
  ri,            \* index in group.rows of the row being resolved
  full_display_name, \* find_or_create_customer: the name searched and created
  item_cache,    \* ProductService.item_cache: name -> item id
  existing_item, \* find_or_create_product: what _robust_find_item returned
  attempt,       \* loop variable of the create loop in progress
  ret,           \* outcome of the service call that just ended
  ncalls,        \* calls made so far by the harness
  trace,         \* what the call in progress has done (for the properties)
  hist           \* what the calls that ended returned (for the properties)

vars == << qbCustomers, qbIndexed, qbItems, qbInvoices, qbReceipts,
           qbStrictDocNumbers, auth, faults, batch, gi, results, log_stream, success, nbatches,
           customer_id, lines, existing, pc, group, ri, full_display_name, item_cache, existing_item,
           attempt, ret, ncalls, trace, hist >>

remote == << qbCustomers, qbIndexed, qbItems, qbInvoices, qbReceipts >>
prodLocal == << ri, item_cache, existing_item >>
docLocal == << customer_id, lines, existing >>
orchLocal == << batch, gi, results, log_stream, success, nbatches >>
rest == << qbStrictDocNumbers, auth, docLocal, orchLocal >>

\* ------------------------------------------------------------- outcomes
\* A call ends by returning a value or by raising. str(e) and the response
\* text are sets of marker phrases; a non-empty text contains SomeText.
SomeText == "..."
Return(v) == [cls |-> "return", val |-> v, status |-> 0, msg |-> {}, text |-> {}]
Raise(c, st, m, t) == [cls |-> c, val |-> None, status |-> st, msg |-> m, text |-> t]

\* str(HTTPError) as raise_for_status builds it
HttpErrorText(st) ==
  IF st = 400 THEN {SomeText, "400 Client Error"}
  ELSE IF st < 500 THEN {SomeText, "4xx Client Error"}
  ELSE {SomeText, "5xx Server Error"}

\* ----------------------------------------------------- remote (QuickBooks)
\* How the remote answers one request:
\*   ok       it processes the request (a create of a taken name is a 400 fault)
\*   fault    it rejects the request with a validation fault (HTTP 400)
\*   http5xx  server error, body without Fault
\*   http429  rate limit, body without Fault
\*   timeout  no answer (requests.exceptions.Timeout / ConnectionError)
\*   auth400, auth401  the token refresh that precedes the request fails
RemoteAnswers == {"ok", "fault", "http5xx", "http429", "timeout", "auth400", "auth401"}
QueryAnswers == {"ok", "fail"}
AuthFailures == {"auth400", "auth401"}

\* the answers the remote can still give, and the failures left after one
Answers == IF faults > 0 THEN RemoteAnswers ELSE {"ok"}
FaultsAfter(ans) == IF ans = "ok" THEN faults ELSE faults - 1

DuplicateFault ==
  [Fault |-> [Error |-> << [code |-> "6240",
                            Message |-> {SomeText, "Duplicate Name Exists", "Duplicate"},
                            Detail |-> {SomeText, "Duplicate"}] >>]]
\* the shapes in which the remote reports a taken name: by code and message,
\* by code alone, by a Detail that stands in for an empty Message
DuplicateFaults ==
  { DuplicateFault,
    [Fault |-> [Error |-> << [code |-> "6240", Message |-> {SomeText},
                              Detail |-> {SomeText}] >>]],
    [Fault |-> [Error |-> << [code |-> "", Message |-> {},
                              Detail |-> {SomeText, "Duplicate Name Exists",
                                          "Duplicate"}] >>]] }
ValidationFault ==
  [Fault |-> [Error |-> << [code |-> "2020",
                            Message |-> {SomeText},
                            Detail |-> {SomeText}] >>]]

VisibleCustomers == SelectSeq(qbCustomers, LAMBDA c : c.Id \in qbIndexed)

\* rows a query selects; sql = [from, op, val, max]. Names compare ignoring
\* case; MAXRESULTS caps the customer queries.
QueryRows(sql) ==
  IF sql.from = "Customer"
  THEN Take(SelectSeq(VisibleCustomers,
                      LAMBDA c : IF sql.op = "="
                                 THEN LowerStr(c.DisplayName) = LowerStr(sql.val)
                                 ELSE Contains(LowerStr(c.DisplayName), LowerStr(sql.val))),
            sql.max)
  ELSE IF sql.from = "Item"
  THEN SelectSeq(qbItems, LAMBDA it : LowerStr(it.Name) = LowerStr(sql.val))
  ELSE SelectSeq(qbInvoices, LAMBDA iv : iv.DocNumber = sql.val)

\* body of GET query: the entity key is absent when no row matches
QueryBody(sql) ==
  LET rows == QueryRows(sql)
  IN [QueryResponse |-> IF rows = <<>> THEN EmptyDict ELSE (sql.from :> rows)]

\* [status, body, text] of POST customer
PostCustomer(payload, ans, dup) ==
  IF ans = "ok"
  THEN IF \E i \in 1..Len(qbCustomers) :
            LowerStr(qbCustomers[i].DisplayName) = LowerStr(payload.DisplayName)
       THEN [status |-> 400, body |-> dup, text |-> {SomeText, "Duplicate"}]
       ELSE [status |-> 200,
             body |-> [Customer |-> [Id |-> Len(qbCustomers) + 1,
                                     DisplayName |-> payload.DisplayName]],
             text |-> {SomeText}]
  ELSE IF ans = "fault"
  THEN [status |-> 400, body |-> ValidationFault, text |-> {SomeText}]
  ELSE [status |-> IF ans = "http429" THEN 429 ELSE 500,
        body |-> [raw |-> {SomeText}], text |-> {SomeText}]

\* the remote's customers after POST customer
CustomersAfterPost(payload, ans) ==
  LET r == PostCustomer(payload, ans, DuplicateFault)
  IN IF r.status = 200 THEN Append(qbCustomers, r.body.Customer) ELSE qbCustomers

\* ------------------------------------------------------- QuickBooksClient
\* _make_request for a request the remote would answer with r = [status, body,
\* text]: _get_headers raises when the token refresh fails, the transport
\* raises on a timeout, raise_for_status raises for status >= 400.
make_request(r, raise_on_error, ans) ==
  IF ans = "auth400" THEN Raise("HTTPError", 400, HttpErrorText(400), {SomeText})
  ELSE IF ans = "auth401" THEN Raise("HTTPError", 401, HttpErrorText(401), {SomeText})
  ELSE IF ans = "timeout" THEN Raise("Timeout", 0, {SomeText}, {})
  ELSE IF raise_on_error /\ r.status >= 400
       THEN Raise("HTTPError", r.status, HttpErrorText(r.status), r.text)
       ELSE Return(r.body)

\* _query_safe: the inner QueryResponse dict on success, {'QueryResponse': {}}
\* on any failure
query_safe(sql, qans) ==
  IF qans = "ok"
  THEN LET qr == Get(QueryBody(sql), "QueryResponse", EmptyDict)
       IN IF DOMAIN qr = {} THEN EmptyDict ELSE qr
  ELSE [QueryResponse |-> EmptyDict]

\* "(Code: {code})" in an error message
CodeText(code) == IF code = "6240" THEN {"6240"} ELSE {}

\* a create_customer that knows a duplicate by the fault's code alone
create_customerByCode(o) ==
  IF o.cls # "return" THEN o
  ELSE LET resp == o.val IN
    IF "Fault" \in DOMAIN resp
    THEN LET err == resp["Fault"]["Error"][1]
             code == Get(err, "code", "")
         IN IF code = "6240"
            THEN Raise("RuntimeError", 0, {SomeText, "Duplicate customer", "Duplicate"} \cup CodeText(code), {})
            ELSE Raise("RuntimeError", 0, {SomeText} \cup Get(err, "Detail", {}) \cup CodeText(code), {})
    ELSE IF "Customer" \notin DOMAIN resp
    THEN Raise("RuntimeError", 0, {SomeText}, {})
    ELSE o

\* a create_customer that raises whatever the response holds
create_customerLost(o) ==
  IF o.cls # "return" THEN o ELSE Raise("RuntimeError", 0, {SomeText}, {})

\* create_customer, given the outcome o of its _make_request(raise_on_error=False)
create_customer(o) ==
  IF o.cls # "return" THEN o
  ELSE LET resp == o.val IN
    IF "Fault" \in DOMAIN resp
    THEN LET err == resp["Fault"]["Error"][1]
             detail == Get(err, "Detail", {})
             code == Get(err, "code", "")
             msg == IF Get(err, "Message", {}) # {} THEN err["Message"] ELSE detail
         IN IF "Duplicate Name Exists" \in msg \/ code = "6240" \/ "Duplicate" \in detail
            THEN Raise("RuntimeError", 0,
                       {SomeText, "Duplicate customer", "Duplicate"} \cup msg \cup CodeText(code), {})
            ELSE Raise("RuntimeError", 0, {SomeText} \cup msg \cup CodeText(code), {})
    ELSE IF "Customer" \notin DOMAIN resp
    THEN Raise("RuntimeError", 0, {SomeText}, {})
    ELSE o

\* -------------------------------------------------------- CustomerService
\* full_display_name of find_or_create_customer
DisplayName(g, customer_type, insurance_name) ==
  LET patient_name == Title(NormSpaces(g.name))
      patient_id == NormSpaces(g.pid)
  IN IF customer_type = "insurance" /\ insurance_name # <<>>
     THEN NormSpaces(Title(NormSpaces(insurance_name)))
     ELSE NormSpaces(patient_name \o <<" ","I","D"," ">> \o patient_id)

CustomerRows(data) == Get(data, "Customer", <<>>)

LikeQuery(val) == [from |-> "Customer", op |-> "LIKE", val |-> val, max |-> LikeMaxResults]

\* get_customer_id_by_name; q[i] is the fate of its i-th query
get_customer_id_by_name(name, q) ==
  LET exact == CustomerRows(query_safe(
                 [from |-> "Customer", op |-> "=", val |-> name, max |-> 1], q[1]))
      variations == << name,
                       Replace(name, <<" ","I","D"," ">>, <<" ","I","d"," ">>),
                       Replace(name, <<" ","I","D"," ">>, <<" ","i","d"," ">>) >>
      like(i) == CustomerRows(query_safe(LikeQuery(variations[i]), q[i + 1]))
      hits == {i \in 1..3 : like(i) # <<>>}
  IN IF exact # <<>> THEN exact[1].Id
     ELSE IF hits # {} THEN like(Min(hits))[1].Id
     ELSE None

\* _fallback_search_by_components; q[i] is the fate of its i-th query
fallback_search_by_components(name, q) ==
  LET tokens == SplitOn(name, {" ", ",", ".", "-"}, <<>>)
      numeric_tokens == SelectSeq(tokens, LAMBDA t : \A i \in 1..Len(t) : IsDigit(t[i]))
      search_terms == Take(numeric_tokens \o tokens, FallbackTerms)
      rows(i) == CustomerRows(query_safe(LikeQuery(search_terms[i]), q[i]))
      hits == {i \in 1..Len(search_terms) : rows(i) # <<>>}
  IN IF hits = {} THEN None
     ELSE LET customers == rows(Min(hits))
              term == LowerStr(search_terms[Min(hits)])
              pref == {j \in 1..Len(customers) :
                         Contains(LowerStr(customers[j].DisplayName), term)}
          IN IF pref # {} THEN customers[Min(pref)].Id ELSE customers[1].Id

\* ------------------------------------------------------ TransactionMapper
\* str.strip()
RECURSIVE StripLeft(_)
StripLeft(s) == IF s # <<>> /\ Head(s) = " " THEN StripLeft(Tail(s)) ELSE s
RECURSIVE StripRight(_)
StripRight(s) ==
  IF s # <<>> /\ s[Len(s)] = " " THEN StripRight(SubSeq(s, 1, Len(s) - 1)) ELSE s
Strip(s) == StripRight(StripLeft(s))

\* an extraction that takes the first token for the insurer, known or not
extract_insurance_nameFirst(g) ==
  LET pieces == SplitOn(g.mode, {","}, <<>>)
  IN IF pieces = <<>> THEN <<>> ELSE Strip(pieces[1])

\* extract_insurance_name: the first comma-separated token of the FIRST row's
\* Mode of Payment that equals a known insurer ignoring case; <<>> for None
extract_insurance_name(g) ==
  LET pieces == SplitOn(g.mode, {","}, <<>>)
      payments == [i \in 1..Len(pieces) |-> Strip(pieces[i])]
      known(p) == \E k \in 1..Len(KNOWN_INSURANCES) : UpperStr(p) = UpperStr(KNOWN_INSURANCES[k])
      hits == {i \in 1..Len(payments) : known(payments[i])}
  IN IF hits = {} THEN <<>> ELSE payments[Min(hits)]

is_insurance_transaction(g) ==
  LET has_insurance_flag == \E i \in 1..Len(g.rows) : LowerStr(g.rows[i].ins) = <<"y","e","s">>
  IN has_insurance_flag /\ extract_insurance_name(g) # <<>>

\* the branch process_csv_file takes for a group: customer type, insurer name
\* and transaction type
Classify(g) ==
  IF is_insurance_transaction(g) /\ Strip(extract_insurance_name(g)) # <<>>
  THEN [customer_type |-> "insurance",
        insurance_name |-> Strip(extract_insurance_name(g)),
        transaction_type |-> "invoice"]
  ELSE [customer_type |-> "patient", insurance_name |-> <<>>,
        transaction_type |-> "sales_receipt"]

\* ---------------------------------------- find_or_create_customer, by step
Fates(n) == [1..n -> QueryAnswers]

\* nothing recorded of a create: the response body, what create_customer did
\* with it, whether the caller took it for a duplicate
NoLast == [resp |-> EmptyDict, err |-> [cls |-> "return", msg |-> {}], asdup |-> FALSE]

\* the customer the exact-match query shows, or None
ExactMatch(name, qans) ==
  LET rows == CustomerRows(query_safe(
                 [from |-> "Customer", op |-> "=", val |-> name, max |-> 1], qans))
  IN IF rows # <<>> THEN rows[1].Id ELSE None

\* what get_customer_id_by_name can return, over the fates of its queries
Lookups(name) ==
  { [id |-> get_customer_id_by_name(name, q), exact |-> ExactMatch(name, q[1]) # None] :
      q \in Fates(4) }

\* what _fallback_search_by_components can return
Fallbacks(name) == { fallback_search_by_components(name, q) : q \in Fates(FallbackTerms) }

\* the call returns id
CustReturns(id, via) ==
  /\ pc' = "cust_ret"
  /\ ret' = Return(id)
  /\ attempt' = attempt
  /\ trace' = [trace EXCEPT !.via = via, !.last = NoLast]

\* a create loop that does not count its attempts
CustNextAttemptStuck ==
  /\ attempt' = attempt
  /\ pc' = "cust_create"
  /\ ret' = ret

\* "continue" / falling out of the except clause: next attempt, or the final
\* searches after the last one
CustNextAttempt ==
  /\ attempt' = attempt + 1
  /\ pc' = IF attempt + 1 < CustomerAttempts THEN "cust_create" ELSE "cust_final"
  /\ ret' = ret

\* existing_id = self.get_customer_id_by_name(full_display_name)
CustFind ==
  /\ pc = "cust_find"
  /\ \E r \in Lookups(full_display_name) :
       IF r.id # None
       THEN CustReturns(r.id, IF r.exact THEN "exact" ELSE "like")
       ELSE /\ pc' = "cust_create"
            /\ attempt' = 0
            /\ UNCHANGED << ret, trace >>
  /\ UNCHANGED << faults, rest, remote, prodLocal, group, full_display_name, ncalls, hist >>

\* resp = self.qb_client.create_customer(payload), and the except clause
CustCreate ==
  /\ pc = "cust_create"
  /\ \E ans \in Answers, dup \in DuplicateFaults :
       LET payload == [DisplayName |-> full_display_name]
           reached == ans \notin {"timeout", "auth400", "auth401"}
           r == PostCustomer(payload, ans, dup)
           o == create_customer(make_request(r, FALSE, ans))
           isdup == o.cls = "RuntimeError" /\ ("Duplicate" \in o.msg \/ "6240" \in o.msg)
           seen == [trace EXCEPT !.bad = @ \/ ans # "ok", !.auth = @ \/ ans \in AuthFailures,
                                 !.creates = @ + 1,
                                 !.last = [resp |-> IF reached THEN r.body ELSE EmptyDict,
                                           err |-> [cls |-> o.cls, msg |-> o.msg],
                                           asdup |-> isdup]]
       IN /\ faults' = FaultsAfter(ans)
          /\ qbCustomers' = IF reached THEN CustomersAfterPost(payload, ans) ELSE qbCustomers
          /\ IF o.cls = "return"
             THEN /\ pc' = "cust_ret"
                  /\ ret' = Return(o.val["Customer"]["Id"])
                  /\ attempt' = attempt
                  /\ trace' = [seen EXCEPT !.via = "created"]
             ELSE IF isdup
             THEN /\ pc' = "cust_recover"
                  /\ UNCHANGED << attempt, ret >>
                  /\ trace' = [seen EXCEPT !.dup = TRUE]
             ELSE IF o.cls = "RuntimeError"
             THEN /\ CustNextAttempt
                  /\ trace' = seen
             ELSE /\ pc' = "cust_ret"
                  /\ ret' = o
                  /\ attempt' = attempt
                  /\ trace' = seen
  /\ UNCHANGED << rest, qbIndexed, qbItems, qbInvoices, qbReceipts, prodLocal,
                  group, full_display_name, ncalls, hist >>

\* after a duplicate: recovered = get_customer_id_by_name(..), then
\* _fallback_search_by_components(..), else continue
CustRecover ==
  /\ pc = "cust_recover"
  /\ \E r \in Lookups(full_display_name) :
       IF r.id # None THEN CustReturns(r.id, "requery")
       ELSE \E fb \in Fallbacks(full_display_name) :
              IF fb # None THEN CustReturns(fb, "fallback")
              ELSE /\ CustNextAttempt
                   /\ trace' = [trace EXCEPT !.misses = @ + 1, !.last = NoLast]
  /\ UNCHANGED << faults, rest, remote, prodLocal, group, full_display_name, ncalls, hist >>

\* after the loop: the final searches, then raise RuntimeError
CustFinal ==
  /\ pc = "cust_final"
  /\ \E r \in Lookups(full_display_name) :
       IF r.id # None THEN CustReturns(r.id, "requery")
       ELSE \E fb \in Fallbacks(full_display_name) :
              IF fb # None THEN CustReturns(fb, "fallback")
              ELSE /\ pc' = "cust_ret"
                   /\ ret' = Raise("RuntimeError", 0,
                                   {SomeText, "Failed to create or find customer"}, {})
                   /\ attempt' = attempt
                   /\ trace' = [trace EXCEPT !.misses = @ + 1, !.last = NoLast]
  /\ UNCHANGED << faults, rest, remote, prodLocal, group, full_display_name, ncalls, hist >>

\* the remote's query index catches up with one more customer; taken between
\* calls and before the steps that query, the only readers of the index
IndexCatchUp ==
  /\ pc \in {"idle", "cust_find", "cust_recover", "cust_final"}
  /\ \E i \in 1..Len(qbCustomers) : i \notin qbIndexed /\ qbIndexed' = qbIndexed \cup {i}
  /\ UNCHANGED << faults, rest, qbCustomers, qbItems, qbInvoices, qbReceipts, prodLocal,
                  pc, group, full_display_name, attempt, ret, ncalls, trace, hist >>

\* ----------------------------------------------------------- input pools
Yes == <<"Y","e","s">>
No == <<"N","o">>
Pharmacy == <<"P","h","a","r","m","a","c","y">>

\* a row; the money cells in thousandths
BaseRow == [ins |-> No, ps |-> Pharmacy, desc |-> <<"x">>, total |-> 100,
            qty |-> 1, cost |-> 100]

\* groups that differ in what customer resolution reads: two cash patients,
\* an insured patient, and a patient flagged as insured without a known insurer
CustomerGroups ==
  { [inv |-> 1, name |-> <<"a">>, pid |-> <<"1">>, mode |-> <<"x">>, rows |-> << BaseRow >>],
    [inv |-> 1, name |-> <<"a">>, pid |-> <<"1","2">>, mode |-> <<"x">>, rows |-> << BaseRow >>],
    [inv |-> 1, name |-> <<"a">>, pid |-> <<"1">>, mode |-> <<"x",","," ","c","i","c">>,
     rows |-> << [BaseRow EXCEPT !.ins = Yes] >>],
    [inv |-> 1, name |-> <<"a">>, pid |-> <<"1","2">>, mode |-> <<"x">>,
     rows |-> << [BaseRow EXCEPT !.ins = Yes] >>] }

NoItem == [Id |-> None]
NoGroup == [inv |-> 0, name |-> <<>>, pid |-> <<>>, mode |-> <<>>, rows |-> <<>>]
NoTrace == [creates |-> 0, dup |-> FALSE, misses |-> 0, via |-> "none",
            bad |-> FALSE, auth |-> FALSE, pre |-> <<>>, last |-> NoLast]
NoBatch == [startlog |-> {}, auth |-> FALSE, raised |-> <<>>, readable |-> TRUE,
            receipts |-> <<>>, file |-> <<>>, slept |-> <<>>]
\* a QuickBooksAuth as load_tokens leaves it when the stored access token has
\* expired (times in seconds; the calls start at time now)
now == 1000
NoAuth == [_tokens |-> [access_token |-> 1, refresh_token |-> 1, expires_at |-> 900],
           _lock |-> FALSE]
NoHist == [resolved |-> {}, items |-> {}, cur |-> NoBatch,
           prev |-> [name |-> <<>>, id |-> None, snap |-> <<>>]]

InitRemote ==
  /\ qbCustomers = <<>>
  /\ qbIndexed = {}
  /\ qbItems = <<>>
  /\ qbInvoices = <<>>
  /\ qbReceipts = <<>>

InitLocal ==
  /\ pc = "idle"
  /\ auth = NoAuth
  /\ batch = <<>>
  /\ gi = 0
  /\ results = <<>>
  /\ log_stream = {}
  /\ success = FALSE
  /\ nbatches = 0
  /\ customer_id = None
  /\ lines = <<>>
  /\ existing = EmptyDict
  /\ group = NoGroup
  /\ ri = 0
  /\ item_cache = EmptyDict
  /\ existing_item = NoItem
  /\ full_display_name = <<>>
  /\ attempt = 0
  /\ ret = Return(None)
  /\ ncalls = 0
  /\ trace = NoTrace
  /\ hist = NoHist

\* --------------------------------- specification: calls of CustomerService
\* customer_service.find_or_create_customer(group, mapper, ...) is called
CallCustomer ==
  /\ pc = "idle"
  /\ ncalls < MaxCalls
  /\ \E g \in CustomerGroups :
       /\ group' = g
       /\ full_display_name' =
            DisplayName(g, Classify(g).customer_type, Classify(g).insurance_name)
  /\ pc' = "cust_find"
  /\ ncalls' = ncalls + 1
  /\ attempt' = 0
  /\ trace' = NoTrace
  /\ UNCHANGED << faults, rest, remote, prodLocal, ret, hist >>

\* the call has ended and its locals are gone; remember what it returned and
\* what the remote held
CustomerReturn ==
  /\ pc = "cust_ret"
  /\ pc' = "idle"
  /\ hist' = [hist EXCEPT
                !.resolved = IF ret.cls = "return"
                             THEN @ \cup {<< full_display_name, ret.val >>} ELSE @,
                !.prev = [name |-> full_display_name, id |-> ret.val,
                          snap |-> << qbCustomers, qbIndexed >>]]
  /\ group' = NoGroup
  /\ full_display_name' = <<>>
  /\ attempt' = 0
  /\ ret' = Return(None)
  /\ trace' = NoTrace
  /\ UNCHANGED << faults, rest, remote, prodLocal, ncalls >>

InitCustomer == InitRemote /\ faults = MaxFaults /\ qbStrictDocNumbers = FALSE /\ InitLocal

NextCustomer ==
  \/ CallCustomer
  \/ CustFind
  \/ CustCreate
  \/ CustRecover
  \/ CustFinal
  \/ CustomerReturn
  \/ IndexCatchUp

SpecCustomer == InitCustomer /\ [][NextCustomer]_vars

\* --------------------------------- TransactionMapper.map_income_account
\* any(k in desc for k in keys)
AnyIn(keys, desc) == \E k \in keys : Contains(desc, k)

exact_map ==
  (<<"P","h","a","r","m","a","c","y">> :> "73") @@ (<<"C","o","n","s","u","l","t","a","t","i","o","n">> :> "3") @@ (<<"L","a","b","o","r","a","t","o","r","y">> :> "1150040042")
  @@ (<<"C","o","u","n","s","e","l","l","i","n","g">> :> "1150040041")
  @@ (<<"G","y","n","a","e","c","o","l","o","g","y"," ","a","n","d"," ","M","i","n","o","r"," ","p","r","o","c","e","d","u","r","e","s">> :> "12") @@ (<<"O","t","h","e","r"," ","R","e","q","u","e","s","t">> :> "13")

variation_map ==
  (<<"C","o","n","s","u","l","t","a","t","i","o","n"," ","I","n","c","o","m","e">> :> "3") @@ (<<"C","o","n","s","u","l","t","a","t","i","o","n"," ","i","n","c","o","m","e">> :> "3")
  @@ (<<"c","o","n","s","u","l","t","a","t","i","o","n">> :> "3") @@ (<<"L","a","b"," ","T","e","s","t","s">> :> "1150040042")
  @@ (<<"l","a","b","o","r","a","t","o","r","y">> :> "1150040042")
  @@ (<<"G","y","n","a","e","c","o","l","o","g","y"," ","a","n","d"," ","M","i","n","o","r"," ","p","r","o","c","e","d","u","r","e","s">> :> "12")
  @@ (<<"G","y","n","a","e","c","o","l","o","g","y"," ","&"," ","M","i","n","o","r"," ","p","r","o","c","e","d","u","r","e","s">> :> "12")
  @@ (<<"G","y","n"," ","a","n","d"," ","M","i","n","o","r"," ","p","r","o","c","e","d","u","r","e","s">> :> "12")
  @@ (<<"O","t","h","e","r"," ","R","e","q","u","e","s","t","s">> :> "13") @@ (<<"O","t","h","e","r"," ","r","e","q","u","e","s","t","s">> :> "13")
  @@ (<<"C","o","u","n","s","e","l","l","i","n","g">> :> "1150040041") @@ (<<"C","o","u","n","s","e","l","i","n","g">> :> "1150040041")

PharmacyKeys == { <<"p","h","a","r","m","a","c","y">>, <<"i","n","j">>, <<"t","a","b">>, <<"c","a","p","s">>, <<"s","y","r">>, <<"c","r","e","a","m">>, <<"s","u","p","p","o","s">>,
                  <<"l","o","t","i","o","n">>, <<"d","i","s","p","e","n","s","e">> }
GynKeys == { <<"i","u","d">>, <<"p","a","p"," ","s","m","e","a","r">>, <<"p","a","p","s","m","e","a","r">>, <<"e","u","a">>, <<"c","u","r","r","e","t","a","g","e">>,
             <<"m","i","n","o","r"," ","p","r","o","c","e","d","u","r","e">>, <<"i","n","s","e","r","t","i","o","n">>, <<"r","e","m","o","v","a","l">> }
MaternityKeys == { <<"d","e","l","i","v","e","r","y">>, <<"c","-","s","e","c","t","i","o","n">>, <<"c","a","e","s","a","r","e","a","n">>, <<"t","h","e","a","t","r","e"," ","f","e","e">>,
                   <<"a","n","e","s","t","h","e","t","i","s","t">>, <<"p","e","d","i","a","t","r","i","c","i","a","n">>, <<"a","d","m","i","s","s","i","o","n">>, <<"w","a","r","d">>,
                   <<"n","u","r","s","i","n","g"," ","c","a","r","e">> }
LabKeys == { <<"u","l","t","r","a","s","o","u","n","d">>, <<"s","c","a","n">>, <<"o","b","s"," ">>, <<"p","e","l","v","i","c">>, <<"f","b","s">>, <<"r","b","s">>, <<"u","/","a">>,
             <<"f","h","g">>, <<"o","g","t","t">>, <<"p","r","o","l","a","c","t","i","n">>, <<"t","v","s">> }
OtherKeys == { <<"c","t","g">>, <<"h","i","s","t","o","l","o","g","y">>, <<"s","p","e","c","u","l","u","m">>, <<"e","u","a">> }

\* the "value" of the account reference map_income_account returns
map_income_account(product_service, description) ==
  LET ps == Strip(product_service)
      desc == LowerStr(Strip(description))
      normalized_ps ==
        Strip(Replace(Replace(Replace(Replace(ps, <<"&">>, <<"a","n","d">>),
                                      <<"c","o","n","s","u","l","t">>, <<"C","o","n","s","u","l","t","a","t","i","o","n">>),
                              <<"l","a","b">>, <<"L","a","b","o","r","a","t","o","r","y">>),
                      <<"g","y","n">>, <<"G","y","n","a","e","c","o","l","o","g","y">>))
  IN IF ps \in DOMAIN exact_map THEN exact_map[ps]
     ELSE IF normalized_ps \in DOMAIN variation_map THEN variation_map[normalized_ps]
     ELSE IF ps = <<>> \/ LowerStr(ps) \in { <<>>, <<"n","a","n">>, <<"n","o","n","e">> }
     THEN IF AnyIn(PharmacyKeys, desc) THEN "73"
          ELSE IF AnyIn(GynKeys, desc) THEN "12"
          ELSE IF AnyIn(MaternityKeys, desc) THEN "13"
          ELSE IF AnyIn(LabKeys, desc) THEN "1150040042"
          ELSE IF AnyIn(OtherKeys, desc) THEN "13"
          ELSE "13"
     ELSE "13"

\* ---------------------------------------------------- remote: POST item
\* [status, body, text] of POST item; hasId: the duplicate fault's text names
\* the id of the item that holds the name
PostItem(payload, ans, hasId) ==
  IF ans = "ok"
  THEN IF \E i \in 1..Len(qbItems) : LowerStr(qbItems[i].Name) = LowerStr(payload.Name)
       THEN [status |-> 400, body |-> DuplicateFault,
             text |-> {SomeText, "Duplicate"} \cup (IF hasId THEN {"Id="} ELSE {})]
       ELSE [status |-> 200,
             body |-> [Item |-> [Id |-> Len(qbItems) + 1, Name |-> payload.Name,
                                 IncomeAccountRef |-> payload.IncomeAccountRef]],
             text |-> {SomeText}]
  ELSE IF ans = "fault"
  THEN [status |-> 400, body |-> ValidationFault, text |-> {SomeText}]
  ELSE [status |-> IF ans = "http429" THEN 429 ELSE 500,
        body |-> [raw |-> {SomeText}], text |-> {SomeText}]

\* the id a duplicate fault's text names: re.search(r'Id=(\d+)', text)
IdInText(name) ==
  Min({ i \in 1..Len(qbItems) : LowerStr(qbItems[i].Name) = LowerStr(name) })

\* ------------------------------------------- QuickBooksClient, for items
\* find_item_by_name: reads 'QueryResponse' in what _query_safe returned
find_item_by_name(name, qans) ==
  IF name = <<>> THEN NoItem
  ELSE LET data == query_safe([from |-> "Item", op |-> "=", val |-> name, max |-> 0], qans)
           items == Get(Get(data, "QueryResponse", EmptyDict), "Item", <<>>)
       IN IF items # <<>> THEN items[1] ELSE NoItem

\* create_item, given the outcome o of its _make_request (raise_on_error=True)
create_item(o) ==
  IF o.cls # "return" THEN o
  ELSE IF "Fault" \in DOMAIN o.val
  THEN Raise("RuntimeError", 0, {SomeText, "Item creation failed"}, {})
  ELSE IF "Item" \notin DOMAIN o.val
  THEN Raise("RuntimeError", 0, {SomeText}, {})
  ELSE o

\* bool(e.response): requests.Response is truthy when its status is below 400
ResponseTruthy(status) == status < 400

\* --------------------------------------------------------- ProductService
ItemAttempts == 7
FindRetries == 8
DupFindRetries == 10

\* _robust_find_item: the first item a retry finds, over the fates q of the
\* queries
robust_find_item(name, q) ==
  LET hits == { i \in DOMAIN q : find_item_by_name(name, q[i]) # NoItem }
  IN IF hits = {} THEN NoItem ELSE find_item_by_name(name, q[Min(hits)])

RobustFinds(name, max_retries) ==
  { robust_find_item(name, q) : q \in Fates(max_retries) }

\* the row being resolved
Row == group.rows[ri]

\* str(cell or '').strip(); an empty cell reads as 'nan'
product(row) == IF Strip(row.ps) \in { <<>>, <<"n","a","n">> } THEN <<"U","n","c","a","t","e","g","o","r","i","z","e","d"," ","S","e","r","v","i","c","e">>
                ELSE Strip(row.ps)
original_product(row) == LowerStr(Strip(row.ps))
description(row) == IF Strip(row.desc) \in { <<>>, <<"n","a","n">> } THEN <<"N","o"," ","d","e","s","c","r","i","p","t","i","o","n"," ","p","r","o","v","i","d","e","d">>
                    ELSE Strip(row.desc)
service_name(row) == NormSpaces(description(row))

\* c if c.isalnum() or c in ' .-_' else ' '
SanitizeChar(c) == IF IsAlpha(c) \/ IsDigit(c) \/ c \in {" ", ".", "-", "_"} THEN c ELSE " "
sanitized_base(row) ==
  Take(Title(NormSpaces([i \in 1..Len(service_name(row)) |->
                            SanitizeChar(service_name(row)[i])])), 90)
desired_account_ref(row) == map_income_account(original_product(row), <<>>)

\* int(time.time() * 1000) % 1_000_000, as text
Timestamps == { <<"7">> }
final_name(row, item, ts) ==
  Take(sanitized_base(row) \o (IF item # NoItem THEN <<"_">> \o ts ELSE <<>>), 100)

\* ------------------------------------------ find_or_create_product, by step
\* the call returns id, after caching it under the given keys
ItemReturns(id, keys) ==
  /\ pc' = "item_ret"
  /\ ret' = Return(id)
  /\ attempt' = attempt
  /\ item_cache' = [k \in DOMAIN item_cache \cup keys |->
                      IF k \in keys THEN id ELSE item_cache[k]]

\* the exception e leaves find_or_create_product
ItemRaises(e) ==
  /\ pc' = "item_ret"
  /\ ret' = e
  /\ UNCHANGED << attempt, item_cache >>

\* the next iteration of the create loop; past the last one, the final raise
ItemNextAttempt ==
  /\ item_cache' = item_cache
  /\ IF attempt < ItemAttempts
     THEN /\ attempt' = attempt + 1
          /\ UNCHANGED << pc, ret >>
     ELSE /\ pc' = "item_ret"
          /\ ret' = Raise("RuntimeError", 0, {SomeText, "Exhausted all attempts"}, {})
          /\ attempt' = attempt

\* the cache check, then existing_item = self._robust_find_item(service_name)
ItemFind ==
  /\ pc = "item_find"
  /\ IF sanitized_base(Row) \in DOMAIN item_cache
     THEN /\ pc' = "item_ret"
          /\ ret' = Return(item_cache[sanitized_base(Row)])
          /\ trace' = [trace EXCEPT !.via = "cache"]
          /\ UNCHANGED << attempt, item_cache, existing_item >>
     ELSE \E e \in RobustFinds(service_name(Row), FindRetries) :
            IF e # NoItem /\ e.IncomeAccountRef = desired_account_ref(Row)
            THEN /\ ItemReturns(e.Id, {sanitized_base(Row)})
                 /\ trace' = [trace EXCEPT !.via = "found"]
                 /\ existing_item' = e
            ELSE /\ pc' = "item_create"
                 /\ attempt' = 1
                 /\ existing_item' = e
                 /\ UNCHANGED << ret, item_cache, trace >>
  /\ UNCHANGED << faults, rest, remote, group, ri, full_display_name, ncalls, hist >>

\* response = self.qb_client.create_item(item_data), and the except clauses
ItemCreate ==
  /\ pc = "item_create"
  /\ \E ans \in Answers, ts \in Timestamps, hasId \in BOOLEAN :
       LET name == final_name(Row, existing_item, ts)
           item_data == [Name |-> name, IncomeAccountRef |-> desired_account_ref(Row)]
           reached == ans \notin {"timeout", "auth400", "auth401"}
           r == PostItem(item_data, ans, hasId)
           o == create_item(make_request(r, TRUE, ans))
           isdup == o.cls = "HTTPError" /\ o.status = 400 /\ "Duplicate" \in o.text
           last == attempt = ItemAttempts
       IN /\ faults' = FaultsAfter(ans)
          /\ qbItems' = IF reached /\ r.status = 200 THEN Append(qbItems, r.body.Item)
                        ELSE qbItems
          /\ trace' = [trace EXCEPT !.creates = @ + 1, !.dup = @ \/ isdup,
                                    !.bad = @ \/ ans # "ok", !.auth = @ \/ ans \in AuthFailures,
                                    !.via = IF o.cls = "return" THEN "created" ELSE @]
          /\ IF o.cls = "return"
             THEN ItemReturns(o.val["Item"]["Id"], {sanitized_base(Row), name})
             ELSE IF o.cls = "HTTPError"
             THEN IF ~ResponseTruthy(o.status)
                  THEN IF last THEN ItemRaises(o) ELSE ItemNextAttempt
                  ELSE IF o.status = 429
                  THEN ItemRaises(Raise("NameError", 0, {SomeText}, {}))
                  ELSE IF o.status >= 500 THEN ItemNextAttempt
                  ELSE IF "Duplicate" \in o.text \/ "code=6240" \in o.text \/ "Id=" \in o.text
                  THEN IF "Id=" \in o.text
                       THEN ItemReturns(IdInText(name), {sanitized_base(Row), name})
                       ELSE \E f \in RobustFinds(service_name(Row), DupFindRetries) :
                              IF f # NoItem THEN ItemReturns(f.Id, {sanitized_base(Row)})
                              ELSE IF o.status >= 400 /\ o.status < 500 /\ last
                              THEN ItemRaises(o)
                              ELSE ItemNextAttempt
                  ELSE IF o.status >= 400 /\ o.status < 500 /\ last THEN ItemRaises(o)
                  ELSE ItemNextAttempt
             ELSE IF o.cls = "Timeout"
             THEN IF last THEN ItemRaises(o) ELSE ItemNextAttempt
             ELSE ItemRaises(o)
  /\ UNCHANGED << rest, qbCustomers, qbIndexed, qbInvoices, qbReceipts,
                  group, ri, full_display_name, existing_item, ncalls, hist >>

\* ---------------------------------- specification: calls of ProductService
MaxItems == 3

ProductRows ==
  { [BaseRow EXCEPT !.ps = p, !.desc = d] :
      p \in { Pharmacy, <<"n","a","n">>, <<"C","o","n","s","u","l","t"," ","I","n","c","o","m","e">> }, d \in { <<"x">>, <<"y","/","z">> } }

\* names and income accounts of the items other clients of the company add
ForeignItemNames == { <<"x">>, <<"Y"," ","Z">> }
ForeignAccounts == { "13", "73" }

\* product_service.find_or_create_product(row, inv_no) is called
CallProduct ==
  /\ pc = "idle"
  /\ ncalls < MaxCalls
  /\ \E r \in ProductRows : group' = [NoGroup EXCEPT !.rows = << r >>]
  /\ ri' = 1
  /\ pc' = "item_find"
  /\ ncalls' = ncalls + 1
  /\ attempt' = 0
  /\ existing_item' = NoItem
  /\ trace' = [NoTrace EXCEPT !.pre = qbItems]
  /\ UNCHANGED << faults, rest, remote, full_display_name, item_cache, ret, hist >>

\* the call has ended and its locals are gone; remember what it returned
ProductReturn ==
  /\ pc = "item_ret"
  /\ pc' = "idle"
  /\ hist' = [hist EXCEPT !.items =
                IF ret.cls = "return" THEN @ \cup {<< Row.ps, Row.desc, ret.val >>} ELSE @]
  /\ group' = NoGroup
  /\ ri' = 0
  /\ existing_item' = NoItem
  /\ attempt' = 0
  /\ ret' = Return(None)
  /\ trace' = NoTrace
  /\ UNCHANGED << faults, rest, remote, item_cache, full_display_name, ncalls >>

\* the next run starts: process_csv_file builds a new ProductService
NewRun ==
  /\ pc = "idle"
  /\ item_cache # EmptyDict
  /\ item_cache' = EmptyDict
  /\ UNCHANGED << faults, rest, remote, pc, group, ri, full_display_name, existing_item,
                  attempt, ret, ncalls, trace, hist >>

\* another client of the company adds an item to the catalog
ForeignItem ==
  /\ pc = "idle"
  /\ Len(qbItems) < MaxItems
  /\ \E n \in ForeignItemNames, a \in ForeignAccounts :
       /\ \A i \in 1..Len(qbItems) : LowerStr(qbItems[i].Name) # LowerStr(n)
       /\ qbItems' = Append(qbItems, [Id |-> Len(qbItems) + 1, Name |-> n,
                                      IncomeAccountRef |-> a])
  /\ UNCHANGED << faults, rest, qbCustomers, qbIndexed, qbInvoices, qbReceipts, prodLocal,
                  pc, group, full_display_name, attempt, ret, ncalls, trace, hist >>

InitProduct == InitRemote /\ faults = MaxFaults /\ qbStrictDocNumbers = FALSE /\ InitLocal

NextProduct ==
  \/ CallProduct
  \/ ItemFind
  \/ ItemCreate
  \/ ProductReturn
  \/ NewRun
  \/ ForeignItem

SpecProduct == InitProduct /\ [][NextProduct]_vars

\* ------------------------------------------------ remote: POST documents
DocNumberFault ==
  [Fault |-> [Error |-> << [code |-> "6140",
                            Message |-> {SomeText, "Duplicate Document Number Error"},
                            Detail |-> {SomeText}] >>]]

\* [status, body, text] of POST invoice / POST salesreceipt; kind is the key
\* of the document in the response, docs the remote's documents of that kind
PostDocument(kind, docs, payload, ans) ==
  IF ans = "ok"
  THEN IF qbStrictDocNumbers
          /\ \E i \in 1..Len(docs) : docs[i].DocNumber = payload.DocNumber
       THEN [status |-> 400, body |-> DocNumberFault, text |-> {SomeText}]
       ELSE [status |-> 200,
             body |-> (kind :> [Id |-> Len(docs) + 1, SyncToken |-> 0,
                                DocNumber |-> payload.DocNumber,
                                CustomerRef |-> payload.CustomerRef,
                                Line |-> payload.Line]),
             text |-> {SomeText}]
  ELSE IF ans = "fault"
  THEN [status |-> 400, body |-> ValidationFault, text |-> {SomeText}]
  ELSE [status |-> IF ans = "http429" THEN 429 ELSE 500,
        body |-> [raw |-> {SomeText}], text |-> {SomeText}]

\* the remote's documents after the POST
DocsAfterPost(kind, docs, payload, ans) ==
  LET r == PostDocument(kind, docs, payload, ans)
  IN IF ans \notin {"timeout", "auth400", "auth401"} /\ r.status = 200
     THEN Append(docs, r.body[kind]) ELSE docs

\* ------------------------------------ QuickBooksClient, for documents
create_invoice(invoice_data, ans) ==
  make_request(PostDocument("Invoice", qbInvoices, invoice_data, ans), TRUE, ans)

create_sales_receipt(receipt_data, ans) ==
  make_request(PostDocument("SalesReceipt", qbReceipts, receipt_data, ans), TRUE, ans)

\* --------------------------------------------------------- InvoiceService
doc_number == group.inv

\* max([int(l.get("Id", 0)) for l in current_lines], default=-1)
MaxLineId(current_lines) ==
  IF current_lines = <<>> THEN -1
  ELSE LET ids == { Get(current_lines[i], "Id", 0) : i \in 1..Len(current_lines) }
       IN CHOOSE m \in ids : \A x \in ids : x <= m

\* the new lines, numbered after the largest line id of the invoice
new_lines(current_lines, ls) ==
  [i \in 1..Len(ls) |->
     [Id |-> MaxLineId(current_lines) + 1 + (i - 1),
      DetailType |-> "SalesItemLineDetail",
      Amount |-> ls[i].Amount, ItemRef |-> ls[i].ItemRef,
      Qty |-> ls[i].Qty, UnitPrice |-> ls[i].UnitPrice]]

\* the lookup found an invoice:
\* existing and existing.get("QueryResponse", {}).get("Invoice")
InvoiceFound(e) ==
  /\ e # EmptyDict
  /\ Get(Get(e, "QueryResponse", EmptyDict), "Invoice", <<>>) # <<>>

\* existing = self.qb_client.query("SELECT * FROM Invoice WHERE DocNumber = ..")
InvFind ==
  /\ pc = "inv_find"
  /\ \E qans \in QueryAnswers :
       /\ existing' = query_safe([from |-> "Invoice", op |-> "=", val |-> doc_number,
                                   max |-> 0], qans)
       /\ trace' = [trace EXCEPT !.bad = @ \/ qans # "ok"]
  /\ pc' = "inv_submit"
  /\ UNCHANGED << faults, remote, qbStrictDocNumbers, auth, orchLocal, prodLocal, customer_id, lines,
                  group, full_display_name, attempt, ret, ncalls, hist >>

\* the update of the invoice found, or the create of a new one
InvSubmit ==
  /\ pc = "inv_submit"
  /\ pc' = "inv_ret"
  /\ IF InvoiceFound(existing)
     THEN LET invoice == existing["QueryResponse"]["Invoice"][1]
              update_payload ==
                [Id |-> invoice.Id, SyncToken |-> invoice.SyncToken, sparse |-> TRUE,
                 Line |-> invoice.Line \o new_lines(invoice.Line, lines),
                 CustomerMemo |-> group.name]
          IN \* _make_request(.., json={"Invoice": update_payload}): the method
             \* has no parameter named json, the call raises before any request
             /\ ret' = Raise("TypeError", 0, {SomeText}, {})
             /\ UNCHANGED << qbInvoices, trace, faults >>
     ELSE \E ans \in Answers :
            LET invoice_data == [CustomerRef |-> customer_id, DocNumber |-> doc_number,
                                 Line |-> lines]
            IN /\ faults' = FaultsAfter(ans)
               /\ ret' = create_invoice(invoice_data, ans)
               /\ qbInvoices' = DocsAfterPost("Invoice", qbInvoices, invoice_data, ans)
               /\ trace' = [trace EXCEPT !.creates = @ + 1, !.bad = @ \/ ans # "ok"]
  /\ UNCHANGED << qbCustomers, qbIndexed, qbItems, qbReceipts, qbStrictDocNumbers, auth,
                  orchLocal, prodLocal, docLocal, group, full_display_name, attempt,
                  ncalls, hist >>

\* ---------------------------------- specification: calls of InvoiceService
InvoiceNumbers == {1, 2}

\* line lists as build_lines makes them for an invoice
LinePool ==
  { << [Amount |-> 100, ItemRef |-> 1, Qty |-> 1, UnitPrice |-> 100] >>,
    << [Amount |-> 100, ItemRef |-> 1, Qty |-> 1, UnitPrice |-> 100],
       [Amount |-> 250, ItemRef |-> 2, Qty |-> 1, UnitPrice |-> 250] >> }

\* invoice_service.create_or_update_invoice(group, customer_id, lines) is called
CallInvoice ==
  /\ pc = "idle"
  /\ ncalls < MaxCalls
  /\ \E n \in InvoiceNumbers, ls \in LinePool :
       /\ group' = [NoGroup EXCEPT !.inv = n, !.name = <<"a">>]
       /\ lines' = ls
  /\ customer_id' = 1
  /\ existing' = EmptyDict
  /\ pc' = "inv_find"
  /\ ncalls' = ncalls + 1
  /\ trace' = [NoTrace EXCEPT !.pre = qbInvoices]
  /\ UNCHANGED << faults, remote, qbStrictDocNumbers, auth, orchLocal, prodLocal, full_display_name,
                  attempt, ret, hist >>

\* the call has ended and its locals are gone
InvoiceReturn ==
  /\ pc = "inv_ret"
  /\ pc' = "idle"
  /\ group' = NoGroup
  /\ customer_id' = None
  /\ lines' = <<>>
  /\ existing' = EmptyDict
  /\ ret' = Return(None)
  /\ trace' = NoTrace
  /\ UNCHANGED << faults, remote, qbStrictDocNumbers, auth, orchLocal, prodLocal,
                  full_display_name, attempt, ncalls, hist >>

InitInvoice == InitRemote /\ faults = MaxFaults /\ qbStrictDocNumbers \in BOOLEAN /\ InitLocal

NextInvoice ==
  \/ CallInvoice
  \/ InvFind
  \/ InvSubmit
  \/ InvoiceReturn

SpecInvoice == InitInvoice /\ [][NextInvoice]_vars

\* ------------------------------------------------------------------ money
\* A Decimal is modelled by its value in thousandths, an integer: 330.00 is
\* 330000 and 0.125 is 125. The texts and amounts used carry at most three
\* decimals.
DigitChars == << "0", "1", "2", "3", "4", "5", "6", "7", "8", "9" >>
DigitValue(c) == (CHOOSE i \in 1..10 : DigitChars[i] = c) - 1

RECURSIVE DigitsValue(_)
DigitsValue(s) ==
  IF s = <<>> THEN 0
  ELSE 10 * DigitsValue(SubSeq(s, 1, Len(s) - 1)) + DigitValue(s[Len(s)])

RECURSIVE IntText(_)
IntText(n) == IF n < 10 THEN << DigitChars[n + 1] >>
              ELSE IntText(n \div 10) \o << DigitChars[(n % 10) + 1] >>

\* Decimal(s) for a text of digits, '.' and '-': [ok, v]; ok is false where
\* Decimal raises InvalidOperation
ParseDecimal(s) ==
  LET neg == s # <<>> /\ s[1] = "-"
      body == IF neg THEN Tail(s) ELSE s
      dots == { i \in 1..Len(body) : body[i] = "." }
      wellformed == /\ \A i \in 1..Len(body) : body[i] \in Digits \cup {"."}
                    /\ Cardinality(dots) <= 1
                    /\ \E i \in 1..Len(body) : body[i] \in Digits
      d == IF dots = {} THEN Len(body) + 1 ELSE CHOOSE i \in dots : TRUE
      whole == SubSeq(body, 1, d - 1)
      frac == Take(SubSeq(body, d + 1, Len(body)) \o << "0", "0", "0" >>, 3)
      v == DigitsValue(whole) * 1000 + DigitsValue(frac)
  IN [ok |-> wellformed, v |-> IF ~wellformed THEN 0 ELSE IF neg THEN 0 - v ELSE v]

\* str(d) of a Decimal, up to trailing zeros
DecimalText(m) ==
  LET a == IF m < 0 THEN 0 - m ELSE m
      f == a % 1000
  IN (IF m < 0 THEN << "-" >> ELSE <<>>) \o IntText(a \div 1000) \o << "." >>
     \o << DigitChars[(f \div 100) + 1], DigitChars[((f \div 10) % 10) + 1],
           DigitChars[(f % 10) + 1] >>

\* ''.join(c for c in s if c in '0123456789.-')
MoneyChars(s) == SelectSeq(s, LAMBDA c : c \in Digits \cup {".", "-"})

\* a parser of money cells that drops the sign
safe_parse_moneyUnsigned(value) ==
  LET s == SelectSeq(value, LAMBDA c : c \in Digits \cup {"."})
  IN IF ParseDecimal(s).ok THEN ParseDecimal(s).v ELSE 0

\* CSVParser._safe_parse_money of a cell's text (empty for a missing value)
safe_parse_money(value) ==
  LET s == MoneyChars(Strip(value))
  IN IF value = <<>> THEN 0
     ELSE IF s = <<>> \/ s \in { << "." >>, << "-" >>, << "-", "." >> } THEN 0
     ELSE IF ParseDecimal(s).ok THEN ParseDecimal(s).v ELSE 0

\* parse_money of process_csv_file, applied to the Decimal of the frame
parse_money(m) ==
  LET s == MoneyChars(Strip(DecimalText(m)))
  IN IF s # <<>> /\ s \notin { << "." >>, << "-" >> } THEN ParseDecimal(s).v ELSE 0

\* rounding to cents that rounds a half up
QuantizeHalfUp(m) ==
  LET a == IF m < 0 THEN 0 - m ELSE m
      q == (a \div 10) + (IF a % 10 >= 5 THEN 1 ELSE 0)
  IN IF m < 0 THEN 0 - q * 10 ELSE q * 10

\* d.quantize(Decimal('0.01')): the context's rounding, ROUND_HALF_EVEN
Quantize(m) ==
  LET a == IF m < 0 THEN 0 - m ELSE m
      q == a \div 10
      r == a % 10
      up == r > 5 \/ (r = 5 /\ q % 2 = 1)
      c == IF up THEN q + 1 ELSE q
  IN IF m < 0 THEN 0 - c * 10 ELSE c * 10

\* Decimal(str(row['Quantity'] or '1'))
qty_csv(row) == IF row.qty = 0 THEN 1 ELSE row.qty

\* parse_money of process_csv_file on the text of a value (empty for NaN):
\* Decimal(s) is not guarded, so a residue that is no decimal raises
parse_moneyText(value) ==
  LET s == MoneyChars(Strip(value))
  IN IF value = <<>> THEN Return(0)
     ELSE IF s # <<>> /\ s \notin { << "." >>, << "-" >> }
     THEN IF ParseDecimal(s).ok THEN Return(ParseDecimal(s).v)
          ELSE Raise("InvalidOperation", 0, {SomeText}, {})
     ELSE Return(0)

\* ------------------------------------------------------------ the uploads
\* a cash group of one row
CashGroup(n, p, d, t) ==
  [inv |-> n, name |-> <<"a">>, pid |-> p, mode |-> <<"x">>,
   rows |-> << [BaseRow EXCEPT !.desc = d, !.total = t, !.cost = t] >>]

\* an insurance group of one row
InsuranceGroup(n, p) ==
  [inv |-> n, name |-> <<"a">>, pid |-> p, mode |-> <<"c","i","c">>,
   rows |-> << [BaseRow EXCEPT !.ins = Yes] >>]

\* a group flagged as insured whose Mode of Payment names no known insurer
FlaggedGroup(n, p, d, t) ==
  [inv |-> n, name |-> <<"a">>, pid |-> p, mode |-> <<"x">>,
   rows |-> << [BaseRow EXCEPT !.ins = Yes, !.desc = d, !.total = t, !.cost = t] >>]

\* the groups of the files uploaded, as groupby('Invoice No.') yields them
Batches ==
  { << CashGroup(4, <<"1","2">>, <<"x">>, 100) >>,
    << CashGroup(5, <<"1">>, <<"x">>, 0) >>,
    << InsuranceGroup(6, <<"1">>) >>,
    << CashGroup(1, <<"1">>, <<"y">>, 100), FlaggedGroup(2, <<"1","2">>, <<"y">>, 100),
       CashGroup(3, <<"1">>, <<"y">>, 100) >> }


\* config.settings.CSV_REQUIRED_COLUMNS, and the columns process_csv_file requires
CSV_REQUIRED_COLUMNS ==
  { "Patient ID", "Invoice No.", "Patient Name", "Date of Visit", "Product / Service",
    "Description", "Is Insurance?", "Mode of Payment", "Quantity", "Unit Cost",
    "Total Amount", "Service Date" }
required_columns ==
  { "Invoice No.", "Patient Name", "Patient ID", "Product / Service", "Description",
    "Total Amount", "Quantity", "Unit Cost", "Service Date", "Mode of Payment" }

\* the order of two texts as Python compares str
RECURSIVE TextLess(_, _)
TextLess(a, b) ==
  IF b = <<>> THEN FALSE
  ELSE IF a = <<>> THEN TRUE
  ELSE IF a[1] # b[1]
  THEN (CHOOSE i \in 1..10 : DigitChars[i] = a[1]) < (CHOOSE i \in 1..10 : DigitChars[i] = b[1])
  ELSE TextLess(Tail(a), Tail(b))

\* the key of a group: its Invoice No., a str of the frame
KeyLess(m, n) == TextLess(IntText(m), IntText(n))

\* a grouping that keeps the order in which the keys first appear (sort=False)
groupbyUnsorted(gs) == gs

\* list(df.groupby('Invoice No.')): the groups in ascending order of the key
\* (sort=True is the default of groupby)
groupby(gs) ==
  [ k \in 1..Len(gs) |->
      CHOOSE g \in { gs[i] : i \in 1..Len(gs) } :
        Cardinality({ i \in 1..Len(gs) : KeyLess(gs[i].inv, g.inv) }) = k - 1 ]

\* the groups of a file in the order of their first rows: the files list the
\* invoices from the last key to the first
FileOrder(b) == [ k \in 1..Len(b) |-> b[Len(b) + 1 - k] ]

\* the files uploaded: readable says whether the text can be read and parsed,
\* header names the columns of the file, groups the groups of rows in the
\* order in which their invoice numbers first appear
Uploads ==
  { [readable |-> TRUE, header |-> CSV_REQUIRED_COLUMNS, groups |-> FileOrder(b)] :
      b \in Batches }
  \cup { [readable |-> TRUE, header |-> CSV_REQUIRED_COLUMNS \ {"Date of Visit"},
          groups |-> << CashGroup(4, <<"1","2">>, <<"x">>, 100) >>],
         [readable |-> FALSE, header |-> {}, groups |-> <<>>] }

\* a parse_file that answers an unreadable file with an empty frame
parse_fileLenient(u) ==
  Return([columns |-> CSV_REQUIRED_COLUMNS, groups |-> u.groups])

\* CSVParser.parse_file: any failure is raised as RuntimeError; the columns
\* the file lacks are added with defaults and the frame keeps the required
\* columns only
parse_file(u) ==
  IF ~u.readable
  THEN Raise("RuntimeError", 0, {SomeText, "Failed to parse CSV"}, {})
  ELSE LET missing == CSV_REQUIRED_COLUMNS \ u.header
       IN Return([columns |-> (u.header \cup missing) \cap CSV_REQUIRED_COLUMNS,
                  groups |-> u.groups])

\* ------------------------------------------------ process_csv_file, by step
MaxBatches == 2
MaxBatchFaults == 1

\* the markers the scan after the loop looks for in a logged line
FatalMarkers == { "Failed to refresh QuickBooks token", "400 Client Error" }

\* for invoice_num, group in current_chunk: advance to the next group
NextGroup ==
  /\ gi' = gi + 1
  /\ pc' = IF gi + 1 > Len(batch) THEN "finish" ELSE "group"

\* an except clause that logs the error and records no result
GroupErrorSilent(e, stage) ==
  /\ results' = results
  /\ log_stream' = log_stream \cup e.msg
  /\ hist' = [hist EXCEPT !.cur.raised = Append(@, [gi |-> gi, stage |-> stage,
                                                    cls |-> e.cls]),
                          !.cur.auth = @ \/ trace.auth]
  /\ NextGroup

\* except Exception as e: logger.error(f"Error on invoice ..: {str(e)}",
\* exc_info=True) and the error result; stage names where e was raised
GroupError(e, stage) ==
  /\ results' = Append(results, [invoice |-> group.inv, status |-> "error",
                                 error |-> e.msg])
  /\ log_stream' = log_stream \cup e.msg
  /\ hist' = [hist EXCEPT !.cur.raised = Append(@, [gi |-> gi, stage |-> stage,
                                                    cls |-> e.cls]),
                          !.cur.auth = @ \/ trace.auth]
  /\ NextGroup

\* the line build_lines makes of a row with Total Amount > 0
LineOf(row, item_id, for_invoice) ==
  LET total_amount_csv == parse_money(row.total)
      unit_cost == parse_money(row.cost)
  IN IF for_invoice
     THEN [Amount |-> Quantize(total_amount_csv), Description |-> Strip(row.desc),
           ItemRef |-> item_id, Qty |-> 1, UnitPrice |-> total_amount_csv]
     ELSE [Amount |-> Quantize(qty_csv(row) * unit_cost), Description |-> Strip(row.desc),
           ItemRef |-> item_id,
           Qty |-> IF qty_csv(row) > 0 THEN qty_csv(row) ELSE 1,
           UnitPrice |-> Quantize(unit_cost)]

for_invoice == Classify(group).transaction_type = "invoice"

\* process_csv_file(file_path) is called: new services, the parse, the column
\* check, then the groups in key order; a parse that raises and a missing
\* column end the call with False
StartBatch ==
  /\ pc = "idle"
  /\ nbatches < MaxBatches
  /\ \E u \in Uploads :
       LET df == parse_file(u)
           missing_columns == IF df.cls = "return" THEN required_columns \ df.val.columns
                              ELSE {}
       IN /\ hist' = [hist EXCEPT !.cur = [NoBatch EXCEPT !.startlog = log_stream,
                                                          !.readable = u.readable,
                                                          !.receipts = qbReceipts,
                                                          !.file =
                                                            [k \in 1..Len(u.groups) |->
                                                               u.groups[k].inv]]]
          /\ IF df.cls # "return"
             THEN /\ log_stream' = log_stream \cup {"Failed to process CSV"} \cup df.msg
                  /\ success' = FALSE
                  /\ pc' = "done"
                  /\ UNCHANGED << batch, gi >>
             ELSE IF missing_columns # {}
             THEN /\ log_stream' = log_stream \cup {SomeText, "Missing required columns"}
                  /\ success' = FALSE
                  /\ pc' = "done"
                  /\ UNCHANGED << batch, gi >>
             ELSE /\ batch' = groupby(df.val.groups)
                  /\ gi' = 1
                  /\ pc' = IF df.val.groups = <<>> THEN "finish" ELSE "group"
                  /\ UNCHANGED << log_stream, success >>
  /\ nbatches' = nbatches + 1
  /\ results' = <<>>
  /\ item_cache' = EmptyDict
  /\ UNCHANGED << faults, remote, qbStrictDocNumbers, auth, docLocal, group, ri,
                  full_display_name, existing_item, attempt, ret, ncalls, trace >>

\* the head of the loop body: classification, then the customer call starts
GroupStart ==
  /\ pc = "group"
  /\ group' = batch[gi]
  /\ full_display_name' = DisplayName(batch[gi], Classify(batch[gi]).customer_type,
                                      Classify(batch[gi]).insurance_name)
  /\ attempt' = 0
  /\ trace' = NoTrace
  /\ ret' = Return(None)
  /\ customer_id' = None
  /\ lines' = <<>>
  /\ ri' = 0
  /\ existing_item' = NoItem
  /\ pc' = "cust_find"
  /\ UNCHANGED << faults, remote, qbStrictDocNumbers, auth, orchLocal, existing, item_cache,
                  ncalls, hist >>

\* total_invoices = len(invoice_groups)
total_invoices == Len(batch)

\* a pause that grows with the number of groups
delayPerGroup(total) == 600 * total

\* delay = min(2.0, max(0.6, 6600.0 / total_invoices)), in milliseconds
\* (rounded down)
delay(total) ==
  LET share == 6600000 \div total
      floor == IF share < 600 THEN 600 ELSE share
  IN IF floor > 2000 THEN 2000 ELSE floor

\* customer_id = customer_service.find_or_create_customer(..) has ended, then
\* time.sleep(delay)
AfterCustomer ==
  /\ pc = "cust_ret"
  /\ IF ret.cls # "return"
     THEN /\ GroupError(ret, "customer")
          /\ UNCHANGED << customer_id, lines, ri >>
     ELSE /\ customer_id' = ret.val
          /\ lines' = <<>>
          /\ ri' = 1
          /\ pc' = "line"
          /\ hist' = [hist EXCEPT !.cur.auth = @ \/ trace.auth,
                                  !.cur.slept = Append(@, [gi |-> gi,
                                                           delay |-> delay(total_invoices)])]
          /\ UNCHANGED << gi, results, log_stream >>
  /\ ret' = Return(None)
  /\ trace' = NoTrace
  /\ attempt' = 0
  /\ UNCHANGED << faults, remote, qbStrictDocNumbers, auth, batch, success, nbatches, existing, group,
                  full_display_name, item_cache, existing_item, ncalls >>

\* a build_lines that tests the amount of a row before it resolves the item
BuildLineAmountFirst ==
  /\ pc = "line"
  /\ IF ri <= Len(group.rows)
     THEN IF parse_money(group.rows[ri].total) <= 0
          THEN /\ ri' = ri + 1
               /\ UNCHANGED << pc, existing_item, attempt, trace, gi >>
          ELSE /\ pc' = "item_find"
               /\ existing_item' = NoItem
               /\ attempt' = 0
               /\ trace' = [NoTrace EXCEPT !.pre = qbItems]
               /\ UNCHANGED << gi, ri >>
     ELSE /\ IF lines = <<>> THEN NextGroup ELSE (pc' = "doc" /\ gi' = gi)
          /\ UNCHANGED << existing_item, attempt, trace, ri >>
  /\ UNCHANGED << faults, remote, qbStrictDocNumbers, auth, docLocal, batch, results, log_stream,
                  success, nbatches, group, full_display_name, item_cache, ret,
                  ncalls, hist >>

\* build_lines, for _, row in group.iterrows(): the item call starts; after the
\* last row, `if not lines: continue`
BuildLine ==
  /\ pc = "line"
  /\ IF ri <= Len(group.rows)
     THEN /\ pc' = "item_find"
          /\ existing_item' = NoItem
          /\ attempt' = 0
          /\ trace' = [NoTrace EXCEPT !.pre = qbItems]
          /\ gi' = gi
     ELSE /\ IF lines = <<>> THEN NextGroup ELSE (pc' = "doc" /\ gi' = gi)
          /\ UNCHANGED << existing_item, attempt, trace >>
  /\ UNCHANGED << faults, remote, qbStrictDocNumbers, auth, docLocal, batch, results, log_stream,
                  success, nbatches, group, ri, full_display_name, item_cache, ret,
                  ncalls, hist >>

\* item_id = product_service.find_or_create_product(row, invoice_num) has
\* ended: the rest of the loop body of build_lines
AfterItem ==
  /\ pc = "item_ret"
  /\ IF ret.cls # "return"
     THEN /\ GroupError(ret, "item")
          /\ UNCHANGED << lines, ri >>
     ELSE IF parse_money(Row.total) <= 0
     THEN /\ ri' = ri + 1
          /\ pc' = "line"
          /\ hist' = [hist EXCEPT !.cur.auth = @ \/ trace.auth]
          /\ UNCHANGED << lines, gi, results, log_stream >>
     ELSE IF for_invoice
     THEN \* product_service.is_pharmacy_item: ProductService has no such attribute
          /\ GroupError(Raise("AttributeError", 0, {SomeText}, {}), "lines")
          /\ UNCHANGED << lines, ri >>
     ELSE /\ lines' = Append(lines, LineOf(Row, ret.val, FALSE))
          /\ ri' = ri + 1
          /\ pc' = "line"
          /\ hist' = [hist EXCEPT !.cur.auth = @ \/ trace.auth]
          /\ UNCHANGED << gi, results, log_stream >>
  /\ ret' = Return(None)
  /\ trace' = NoTrace
  /\ attempt' = 0
  /\ existing_item' = NoItem
  /\ UNCHANGED << faults, remote, qbStrictDocNumbers, auth, batch, success, nbatches, customer_id,
                  existing, group, full_display_name, item_cache, ncalls >>

\* the document of the group: create_or_update_invoice starts, or
\* receipt_service.create_sales_receipt and the success result
DocCreate ==
  /\ pc = "doc"
  /\ IF for_invoice
     THEN /\ pc' = "inv_find"
          /\ existing' = EmptyDict
          /\ trace' = [NoTrace EXCEPT !.pre = qbInvoices]
          /\ UNCHANGED << qbReceipts, gi, results, log_stream, hist, faults >>
     ELSE \E ans \in Answers :
            LET receipt_data == [CustomerRef |-> customer_id, DocNumber |-> group.inv,
                                 Line |-> lines]
                o == create_sales_receipt(receipt_data, ans)
            IN /\ faults' = FaultsAfter(ans)
               /\ qbReceipts' = DocsAfterPost("SalesReceipt", qbReceipts, receipt_data, ans)
               /\ trace' = NoTrace
               /\ existing' = existing
               /\ IF o.cls # "return"
                  THEN /\ log_stream' = log_stream \cup o.msg
                       /\ results' = Append(results, [invoice |-> group.inv,
                                                      status |-> "error", error |-> o.msg])
                       /\ hist' = [hist EXCEPT
                                     !.cur.raised = Append(@, [gi |-> gi, stage |-> "doc",
                                                               cls |-> o.cls]),
                                     !.cur.auth = @ \/ ans \in AuthFailures]
                       /\ NextGroup
                  ELSE /\ results' = Append(results,
                                            [invoice |-> group.inv, status |-> "success",
                                             transaction_id |-> o.val["SalesReceipt"]["Id"],
                                             type |-> "sales_receipt"])
                       /\ NextGroup
                       /\ UNCHANGED << log_stream, hist >>
  /\ UNCHANGED << qbCustomers, qbIndexed, qbItems, qbInvoices, qbStrictDocNumbers, auth, batch,
                  success, nbatches, customer_id, lines, prodLocal, group,
                  full_display_name, attempt, ret, ncalls >>

\* after the loop: the scan of log_stream and the returned flag
Finish ==
  /\ pc = "finish"
  /\ LET has_real_error == log_stream \cap FatalMarkers # {}
     IN success' = ~has_real_error
  /\ pc' = "done"
  /\ UNCHANGED << faults, remote, qbStrictDocNumbers, auth, docLocal, batch, gi, results, log_stream,
                  nbatches, prodLocal, group, full_display_name, attempt, ret, ncalls,
                  trace, hist >>

\* the caller has the flag and the call's locals are gone; the process waits
\* for the next upload
Idle ==
  /\ pc = "done"
  /\ pc' = "idle"
  /\ batch' = <<>>
  /\ gi' = 0
  /\ results' = <<>>
  /\ success' = FALSE
  /\ group' = NoGroup
  /\ full_display_name' = <<>>
  /\ customer_id' = None
  /\ lines' = <<>>
  /\ ri' = 0
  /\ item_cache' = EmptyDict
  /\ existing_item' = NoItem
  /\ hist' = [hist EXCEPT !.cur = NoBatch]
  /\ UNCHANGED << faults, remote, qbStrictDocNumbers, auth, log_stream, nbatches, existing,
                  attempt, ret, ncalls, trace >>

\* ------------------------------------- specification: calls of build_lines
\* a parsed row: the parser's Decimals of the Total Amount and Unit Cost cells
LineRow(ins, d, totalText, costText, q) ==
  [ins |-> ins, ps |-> Pharmacy, desc |-> d, total |-> safe_parse_money(totalText),
   qty |-> q, cost |-> safe_parse_money(costText), totalCell |-> totalText]

\* Total Amount cells that hold zero, a negative amount or no amount
NoAmountCells == { <<"0">>, <<"-","5">>, <<"a","b","c">>, <<"1",".","2",".","3">>, <<>> }

\* the rows of the groups, by insurance flag
LineRowsOf(ins) ==
  { << LineRow(ins, <<"x">>, <<"3","3","0",".","0","0">>, <<"1","0","0",".","0","0">>, 3) >>,
    << LineRow(ins, <<"x">>, <<"0",".","1","2","5">>, <<"0",".","1","2","5">>, 1) >>,
    << LineRow(ins, <<"x">>, <<"K","E","S"," ","1",",","0","0","0",".","5","0">>, <<"1","0","0","0",".","5","0">>, 1) >>,
    << LineRow(ins, <<"x">>, <<"0">>, <<"1","0","0",".","0","0">>, 1), LineRow(ins, <<"y">>, <<"5",".","0","0">>, <<"2",".","5","0">>, 2) >>,
    << LineRow(ins, <<"y">>, <<"5",".","0","0">>, <<"2",".","5","0">>, 2), LineRow(ins, <<"x">>, <<"a","b","c">>, <<"1",".","0","0">>, 1),
       LineRow(ins, <<"z">>, <<"7">>, <<"7">>, 1) >>,
    << LineRow(ins, <<"x">>, <<"-","5">>, <<"5">>, 1) >>,
    << LineRow(ins, <<"x">>, <<"3","0","0",".","0","0">>, <<"1","0","0",".","0","0">>, -3) >>,
    << LineRow(ins, <<"x">>, <<"1","0","0",".","0","0">>, <<"1","0","0",".","0","0">>, 0) >>,
    << LineRow(ins, <<"x">>, <<"1",".","2",".","3">>, <<"5">>, 1), LineRow(ins, <<"y">>, <<>>, <<"5">>, 1) >> }

LineGroups ==
  { [inv |-> 1, name |-> <<"a">>, pid |-> <<"1">>, mode |-> <<"x">>, rows |-> r] :
      r \in LineRowsOf(No) }
  \cup { [inv |-> 1, name |-> <<"a">>, pid |-> <<"1">>, mode |-> <<"c","i","c">>, rows |-> r] :
           r \in LineRowsOf(Yes) }

\* lines = build_lines(group, invoice_num, for_invoice=..) is called
CallLines ==
  /\ pc = "idle"
  /\ ncalls < MaxCalls
  /\ \E g \in LineGroups :
       /\ group' = g
       /\ batch' = << g >>
  /\ gi' = 1
  /\ customer_id' = 1
  /\ lines' = <<>>
  /\ ri' = 1
  /\ pc' = "line"
  /\ ncalls' = ncalls + 1
  /\ UNCHANGED << faults, remote, qbStrictDocNumbers, auth, results, log_stream, success, nbatches,
                  existing, item_cache, existing_item, full_display_name, attempt, ret,
                  trace, hist >>

\* build_lines has returned its lines or raised; the call's locals are gone
LinesReturn ==
  /\ pc \in {"doc", "finish"}
  /\ pc' = "idle"
  /\ group' = NoGroup
  /\ batch' = <<>>
  /\ gi' = 0
  /\ customer_id' = None
  /\ lines' = <<>>
  /\ ri' = 0
  /\ results' = <<>>
  /\ log_stream' = {}
  /\ hist' = [hist EXCEPT !.cur = NoBatch]
  /\ UNCHANGED << faults, remote, qbStrictDocNumbers, auth, success, nbatches, existing, item_cache,
                  existing_item, full_display_name, attempt, ret, ncalls, trace >>

InitLines == InitRemote /\ faults = MaxFaults /\ qbStrictDocNumbers = FALSE /\ InitLocal

NextLines ==
  \/ CallLines
  \/ BuildLine
  \/ ItemFind
  \/ ItemCreate
  \/ AfterItem
  \/ LinesReturn

SpecLines == InitLines /\ [][NextLines]_vars

\* ------------------------------------ specification: a process of uploads
Init == InitRemote /\ faults = MaxBatchFaults /\ qbStrictDocNumbers \in BOOLEAN /\ InitLocal

Next ==
  \/ StartBatch
  \/ GroupStart
  \/ CustFind
  \/ CustCreate
  \/ CustRecover
  \/ CustFinal
  \/ AfterCustomer
  \/ BuildLine
  \/ ItemFind
  \/ ItemCreate
  \/ AfterItem
  \/ DocCreate
  \/ Finish
  \/ Idle
  \/ IndexCatchUp

Spec == Init /\ [][Next]_vars

\* ------------------------------------------------ CSVParser, cell by cell
\* A cell of the frame: a str, NaN, an int, a Decimal (in thousandths), a
\* timestamp or NaT.
StrCell(s) == [t |-> "str", s |-> s, n |-> 0]
NaN == [t |-> "nan", s |-> <<>>, n |-> 0]
IntCell(n) == [t |-> "int", s |-> <<>>, n |-> n]
DecCell(n) == [t |-> "dec", s |-> <<>>, n |-> n]
DateCell(s) == [t |-> "date", s |-> s, n |-> 0]
NaT == [t |-> "nat", s |-> <<>>, n |-> 0]

\* the columns of the file that the rows of the model carry, with the cell
\* texts tried in each; the other required columns are present and filled
ParsedColumns ==
  { "Quantity", "Unit Cost", "Total Amount", "Is Insurance?", "Description", "Service Date" }
QuantityCells == { <<"3">>, <<"1">>, <<"0">>, <<"-","3">>, <<"a","b","c">>, <<>> }
MoneyCells ==
  { <<"3","3","0",".","0","0">>, <<"0",".","1","2","5">>, <<"1",",","2","3","4",".","5","0"," ","K","E","S">>, <<"-","5">>, <<"0">>, <<"a","b","c">>, <<>>, <<".">>, <<"-">>, <<"-",".">>,
    <<"-","-">>, <<"1",".","2",".","3">>, <<"5","-">> }
FlagCells ==
  { <<"Y","e","s">>, <<"y","e","s">>, <<"Y">>, <<"T","R","U","E">>, <<" ","y"," ">>, <<"N","o">>, <<"n">>, <<>>, <<"m","a","y","b","e">>, <<"f","a","l","s","e">> }
BaseCells ==
  ("Quantity" :> <<"1">>) @@ ("Unit Cost" :> <<"1","0","0">>) @@ ("Total Amount" :> <<"1","0","0">>)
  @@ ("Is Insurance?" :> <<"N","o">>) @@ ("Description" :> <<"x">>)
  @@ ("Service Date" :> <<"2","0","2","5","-","0","1","-","1","5">>)

\* the files given to the parser: one data row; header is the set of the
\* file's columns, cells the texts of the row (empty for an empty field)
ParserFiles ==
  LET rows == { [BaseCells EXCEPT !["Quantity"] = c] : c \in QuantityCells }
              \cup { [BaseCells EXCEPT !["Unit Cost"] = c, !["Total Amount"] = c] :
                       c \in MoneyCells }
              \cup { [BaseCells EXCEPT !["Is Insurance?"] = c] : c \in FlagCells }
      headers == { CSV_REQUIRED_COLUMNS,
                   CSV_REQUIRED_COLUMNS \ {"Quantity"},
                   CSV_REQUIRED_COLUMNS \ {"Unit Cost", "Total Amount"},
                   CSV_REQUIRED_COLUMNS \ {"Is Insurance?", "Description"},
                   CSV_REQUIRED_COLUMNS \ {"Service Date"},
                   {"Patient ID", "Patient Name"} }
  IN { [readable |-> TRUE, header |-> h, cells |-> r] : h \in headers, r \in rows }
     \cup { [readable |-> FALSE, header |-> {}, cells |-> BaseCells] }

\* pd.read_csv(dtype=str, na_values=['', 'NA', 'nan']): the row of the frame,
\* by column
read_csv(u) ==
  [ c \in u.header \cap ParsedColumns |->
      IF u.cells[c] \in { <<>>, <<"N","A">>, <<"n","a","n">> } THEN NaN ELSE StrCell(u.cells[c]) ]

\* an _ensure_required_columns that adds no column
ensure_required_columnsStrict(row) == [ c \in DOMAIN row |-> row[c] ]

\* CSVParser._ensure_required_columns: the columns the frame lacks get their
\* default, and the frame keeps the required columns
ensure_required_columns(row) ==
  [ c \in ParsedColumns |->
      IF c \in DOMAIN row THEN row[c]
      ELSE IF c = "Quantity" THEN IntCell(1)
      ELSE IF c \in {"Unit Cost", "Total Amount"} THEN DecCell(0)
      ELSE StrCell(<<>>) ]

\* str.capitalize of a lower-case text
Capitalize(s) == IF s = <<>> THEN s ELSE << Upper(s[1]) >> \o Tail(s)

\* the standardisation of "Is Insurance?" in _clean_data: replace() changes
\* the listed values only
standardize_insurance(s) ==
  LET v == Strip(LowerStr(s))
  IN Capitalize(IF v \in { <<>>, <<"n","o">>, <<"n">> } THEN <<"n","o">>
                ELSE IF v \in { <<"y","e","s">>, <<"y">>, <<"t","r","u","e">> } THEN <<"y","e","s">>
                ELSE v)

\* the dates pd.to_datetime reads among the texts tried
DateTexts == { <<"2","0","2","5","-","0","1","-","1","5">> }

\* CSVParser._clean_data, by column
clean_data(row) ==
  [ c \in DOMAIN row |->
      IF c = "Service Date"
      THEN IF row[c].t = "str" /\ row[c].s \in DateTexts THEN DateCell(row[c].s) ELSE NaT
      ELSE IF c \in {"Description", "Is Insurance?"}
      THEN LET s == IF row[c].t = "nan" THEN <<>> ELSE Strip(row[c].s)
           IN StrCell(IF c = "Is Insurance?" THEN standardize_insurance(s) ELSE s)
      ELSE row[c] ]

\* str(value) of a cell that _safe_parse_money is applied to (empty for NaN)
CellText(cell) ==
  IF cell.t = "dec" THEN DecimalText(cell.n)
  ELSE IF cell.t = "int" THEN IntText(cell.n)
  ELSE cell.s

\* pd.to_numeric(.., errors='coerce').fillna(1).astype(int), for the texts
\* tried: an optional sign and digits
to_numeric_int(cell) ==
  IF cell.t = "int" THEN cell.n
  ELSE IF cell.t = "str" /\ ParseDecimal(cell.s).ok
  THEN LET v == ParseDecimal(cell.s).v
       IN IF v < 0 THEN 0 - ((0 - v) \div 1000) ELSE v \div 1000
  ELSE 1

\* step 7 of parse_file: the numeric columns
convert_numeric(row) ==
  [ c \in DOMAIN row |->
      IF c \in {"Unit Cost", "Total Amount"} THEN DecCell(safe_parse_money(CellText(row[c])))
      ELSE IF c = "Quantity" THEN IntCell(to_numeric_int(row[c]))
      ELSE row[c] ]

\* the value of a money cell under the rule: strip all but digits, '.' and
\* '-'; 0 for an empty residue, '.', '-' or no decimal; else the decimal
MoneyExpected(value) ==
  LET r == MoneyChars(value)
  IN IF r \in { <<>>, << "." >>, << "-" >> } \/ ~ParseDecimal(r).ok THEN 0
     ELSE ParseDecimal(r).v

\* ------------------------------ specification: calls of the parser's functions
\* parse_file(file_path) is called: the file is read
CallParse ==
  /\ pc = "idle"
  /\ \E u \in ParserFiles :
       /\ existing' = u
       /\ IF u.readable
          THEN ret' = Return(read_csv(u)) /\ pc' = "read"
          ELSE /\ ret' = Raise("RuntimeError", 0, {SomeText, "Failed to parse CSV"}, {})
               /\ pc' = "parsed"
  /\ UNCHANGED << faults, remote, qbStrictDocNumbers, auth, orchLocal, customer_id, lines, group,
                  prodLocal, full_display_name, attempt, ncalls, trace, hist >>

\* step 5 of parse_file
EnsureColumns ==
  /\ pc = "read"
  /\ ret' = Return(ensure_required_columns(ret.val))
  /\ pc' = "ensured"
  /\ UNCHANGED << faults, remote, qbStrictDocNumbers, auth, orchLocal, docLocal, group,
                  prodLocal, full_display_name, attempt, ncalls, trace, hist >>

\* steps 6 and 7 of parse_file, and its return
CleanAndConvert ==
  /\ pc = "ensured"
  /\ ret' = Return(convert_numeric(clean_data(ret.val)))
  /\ pc' = "parsed"
  /\ UNCHANGED << faults, remote, qbStrictDocNumbers, auth, orchLocal, docLocal, group,
                  prodLocal, full_display_name, attempt, ncalls, trace, hist >>

\* _safe_parse_money(value) and parse_money(value) are called on a text
CallMoney ==
  /\ pc = "idle"
  /\ \E value \in MoneyCells :
       /\ existing' = [value |-> value, parsed |-> safe_parse_money(value)]
       /\ ret' = parse_moneyText(value)
  /\ pc' = "money"
  /\ UNCHANGED << faults, remote, qbStrictDocNumbers, auth, orchLocal, customer_id, lines, group,
                  prodLocal, full_display_name, attempt, ncalls, trace, hist >>

\* the caller has the result
ParserReturn ==
  /\ pc \in {"parsed", "money"}
  /\ pc' = "idle"
  /\ existing' = EmptyDict
  /\ ret' = Return(None)
  /\ UNCHANGED << faults, remote, qbStrictDocNumbers, auth, orchLocal, customer_id, lines, group,
                  prodLocal, full_display_name, attempt, ncalls, trace, hist >>

NextParser ==
  \/ CallParse
  \/ EnsureColumns
  \/ CleanAndConvert
  \/ CallMoney
  \/ ParserReturn

SpecParser == InitLines /\ [][NextParser]_vars

\* ---------------------------------------------------------- SafeQBDecoder
\* JSON values: null, a number, a string, an object (keys to values), a list
JNull == [j |-> "null"]
JNum(n) == [j |-> "num", n |-> n]
JStr(s) == [j |-> "str", s |-> s]
JObj(f) == [j |-> "obj", f |-> f]
JList(xs) == [j |-> "list", xs |-> xs]

numeric_fields ==
  { "Id", "SyncToken", "Balance", "BalanceWithJobs", "TotalAmt", "LineNum", "Amount",
    "Qty", "UnitPrice", "TxnDate" }

\* a hook that replaces every null of an object
object_hookAll(obj) ==
  IF obj.j # "obj" THEN obj
  ELSE JObj([ key \in DOMAIN obj.f |-> IF obj.f[key] = JNull THEN JNum(0) ELSE obj.f[key] ])

\* SafeQBDecoder.object_hook
RECURSIVE object_hook(_)
object_hook(obj) ==
  IF obj.j # "obj" THEN obj
  ELSE JObj([ key \in DOMAIN obj.f |->
                LET value == obj.f[key]
                IN IF value = JNull /\ key \in numeric_fields THEN JNum(0)
                   ELSE IF value.j = "obj" THEN object_hook(value)
                   ELSE IF value.j = "list"
                   THEN JList([ i \in 1..Len(value.xs) |->
                                  IF value.xs[i].j = "obj" THEN object_hook(value.xs[i])
                                  ELSE value.xs[i] ])
                   ELSE value ])

\* json.loads(content, cls=SafeQBDecoder): the decoder calls the hook on every
\* object once its members are decoded
RECURSIVE json_loads(_)
json_loads(doc) ==
  IF doc.j = "obj" THEN object_hook(JObj([ key \in DOMAIN doc.f |-> json_loads(doc.f[key]) ]))
  ELSE IF doc.j = "list" THEN JList([ i \in 1..Len(doc.xs) |-> json_loads(doc.xs[i]) ])
  ELSE doc

\* the response bodies decoded: a document with numeric and other fields, a
\* reference object and a list of lines, with nulls in any of the places
LineDocs ==
  { JObj(("Amount" :> a) @@ ("Description" :> d)) :
      a \in { JNull, JNum(5) }, d \in { JNull, JStr("x") } }
LineLists ==
  { <<>>, << JNull >> } \cup { << l >> : l \in LineDocs }
  \cup { << l, JList(<< m >>) >> : l \in LineDocs, m \in LineDocs }
ResponseDocs ==
  { JObj(("Id" :> i) @@ ("DisplayName" :> n)
         @@ ("CustomerRef" :> JObj(("value" :> r) @@ ("Balance" :> b)))
         @@ ("Line" :> JList(ls))) :
      i \in { JNull, JNum(1) }, n \in { JNull, JStr("x") }, r \in { JNull, JStr("1") },
      b \in { JNull, JNum(2) }, ls \in LineLists }

\* ------------------------------- specification: responses decoded
\* _make_request decodes the content of a response
CallDecode ==
  /\ pc = "idle"
  /\ \E doc \in ResponseDocs :
       /\ existing' = [doc |-> doc]
       /\ ret' = Return(json_loads(doc))
  /\ pc' = "decoded"
  /\ UNCHANGED << faults, remote, qbStrictDocNumbers, auth, orchLocal, customer_id, lines, group,
                  prodLocal, full_display_name, attempt, ncalls, trace, hist >>

\* the caller has the parsed response
DecodeReturn ==
  /\ pc = "decoded"
  /\ pc' = "idle"
  /\ existing' = EmptyDict
  /\ ret' = Return(None)
  /\ UNCHANGED << faults, remote, qbStrictDocNumbers, auth, orchLocal, customer_id, lines, group,
                  prodLocal, full_display_name, attempt, ncalls, trace, hist >>

NextDecoder ==
  \/ CallDecode
  \/ DecodeReturn

SpecDecoder == InitLines /\ [][NextDecoder]_vars

\* ------------------------------ specification: calls of TransactionMapper
\* the rows of a group as the mapper reads them: the flag and the Mode of
\* Payment of every row
FlagTexts == { Yes, No, <<"y","e","s">>, <<"M","a","y","b","e">> }
ModeTexts == { <<>>, <<"x">>, <<"c","i","c">>, <<"x",","," ","C","i","c"," ",",","a","p","a">>, <<" ","A","P","A">>, <<"c","i","c","x">>, <<"c","i"," ","c",",","x">> }
MapperRows == { [ins |-> f, mode |-> m] : f \in FlagTexts, m \in ModeTexts }
MapperFrames ==
  { << r >> : r \in MapperRows }
    \cup { << r, s >> : r \in { [ins |-> f, mode |-> m] : f \in {Yes, No}, m \in {<<"x">>, <<"c","i","c">>} },
                        s \in MapperRows }

\* a reading that takes the Mode of Payment of the last row
iloc_last(frame) ==
  [NoGroup EXCEPT !.mode = frame[Len(frame)].mode,
                  !.rows = [i \in 1..Len(frame) |-> [BaseRow EXCEPT !.ins = frame[i].ins]]]

\* the group of the frame: group['Is Insurance?'] is the column of all rows,
\* group['Mode of Payment'].iloc[0] the field of the first row
iloc_0(frame) ==
  [NoGroup EXCEPT !.mode = frame[1].mode,
                  !.rows = [i \in 1..Len(frame) |-> [BaseRow EXCEPT !.ins = frame[i].ins]]]

\* mapper.is_insurance_transaction(group) and mapper.extract_insurance_name(group)
CallMapper ==
  /\ pc = "idle"
  /\ \E frame \in MapperFrames :
       /\ existing' = [frame |-> frame]
       /\ group' = iloc_0(frame)
       /\ ret' = Return([is_insurance |-> is_insurance_transaction(iloc_0(frame)),
                         insurance_name |-> extract_insurance_name(iloc_0(frame))])
  /\ pc' = "mapped"
  /\ UNCHANGED << faults, remote, qbStrictDocNumbers, auth, orchLocal, customer_id, lines,
                  prodLocal, full_display_name, attempt, ncalls, trace, hist >>

\* the caller has the result
MapperReturn ==
  /\ pc = "mapped"
  /\ pc' = "idle"
  /\ existing' = EmptyDict
  /\ group' = NoGroup
  /\ ret' = Return(None)
  /\ UNCHANGED << faults, remote, qbStrictDocNumbers, auth, orchLocal, customer_id, lines,
                  prodLocal, full_display_name, attempt, ncalls, trace, hist >>

NextMapper ==
  \/ CallMapper
  \/ MapperReturn

SpecMapper == InitLines /\ [][NextMapper]_vars

\* ---------------- specification: two batches at their document step
\* Two processes run process_csv_file against one company; each is at the
\* document step of a group. Every local variable holds one value per
\* process, and a request is sent in one step and answered in a later one,
\* so that the requests of the two processes interleave at the remote.
\* ncalls[p] counts the requests process p has sent and not yet had answered.
Procs == {1, 2}
RaceNumbers == {1, 2}
RaceKinds == {"invoice", "sales_receipt"}
RaceLines == << [Amount |-> 100, ItemRef |-> 1, Qty |-> 1, UnitPrice |-> 100] >>

Only(p, old, v) == [old EXCEPT ![p] = v]

InitRace ==
  /\ InitRemote
  /\ faults = MaxFaults
  /\ qbStrictDocNumbers = FALSE
  /\ auth = NoAuth
  /\ batch = <<>> /\ gi = 0 /\ results = <<>> /\ log_stream = {} /\ success = FALSE
  /\ nbatches = 0 /\ ri = 0 /\ item_cache = EmptyDict /\ existing_item = NoItem
  /\ full_display_name = <<>> /\ attempt = 0 /\ hist = NoHist
  /\ pc = [p \in Procs |-> "idle"]
  /\ group = [p \in Procs |-> NoGroup]
  /\ customer_id = [p \in Procs |-> None]
  /\ lines = [p \in Procs |-> <<>>]
  /\ existing = [p \in Procs |-> EmptyDict]
  /\ ret = [p \in Procs |-> Return(None)]
  /\ ncalls = [p \in Procs |-> 0]
  /\ trace = [p \in Procs |-> NoTrace]

\* what no step of this specification changes
raceFrame == << qbCustomers, qbIndexed, qbItems, qbStrictDocNumbers, auth, orchLocal, prodLocal,
                full_display_name, attempt, hist >>

\* a send that does not wait for the answer
RaceSendsNoWait(p, waiting) ==
  /\ ncalls' = Only(p, ncalls, ncalls[p] + 1)
  /\ pc' = pc

\* requests.request(...) blocks the process until the answer is there
RaceSends(p, waiting) ==
  /\ ncalls' = Only(p, ncalls, ncalls[p] + 1)
  /\ pc' = Only(p, pc, waiting)

\* process p reaches the document step of a group:
\* create_or_update_invoice(group, customer_id, lines) for an invoice group,
\* create_sales_receipt(group, customer_id, lines) for the others
RaceCall(p) ==
  /\ pc[p] = "idle"
  /\ \E n \in RaceNumbers, kind \in RaceKinds :
       /\ group' = Only(p, group, [NoGroup EXCEPT !.inv = n, !.name = <<"a">>])
       /\ pc' = Only(p, pc, IF kind = "invoice" THEN "inv_find" ELSE "rcpt")
  /\ lines' = Only(p, lines, RaceLines)
  /\ customer_id' = Only(p, customer_id, 1)
  /\ UNCHANGED << remote, faults, raceFrame, existing, ret, ncalls, trace >>

\* the lookup of create_or_update_invoice is sent
RaceFindSent(p) ==
  /\ pc[p] = "inv_find"
  /\ ncalls[p] < 2
  /\ RaceSends(p, "inv_find_wait")
  /\ UNCHANGED << remote, faults, raceFrame, docLocal, group, ret, trace >>

\* existing = self.qb_client.query(...): the remote answers the lookup
RaceFindAnswered(p) ==
  /\ pc[p] = "inv_find_wait"
  /\ \E qans \in QueryAnswers :
       existing' = Only(p, existing,
                        query_safe([from |-> "Invoice", op |-> "=", val |-> group[p].inv,
                                    max |-> 0], qans))
  /\ trace' = Only(p, trace, [trace[p] EXCEPT !.pre = qbInvoices, !.misses = @ + 1])
  /\ ncalls' = Only(p, ncalls, ncalls[p] - 1)
  /\ pc' = Only(p, pc, "inv_submit")
  /\ UNCHANGED << remote, faults, raceFrame, customer_id, lines, group, ret >>

\* the branch on the lookup's result: the update raises before any request,
\* the create is sent
RaceSubmitSent(p) ==
  /\ pc[p] = "inv_submit"
  /\ ncalls[p] < 2
  /\ IF InvoiceFound(existing[p])
     THEN /\ ret' = Only(p, ret, Raise("TypeError", 0, {SomeText}, {}))
          /\ pc' = Only(p, pc, "doc_ret")
          /\ UNCHANGED << ncalls, trace >>
     ELSE /\ RaceSends(p, "inv_create_wait")
          /\ trace' = Only(p, trace, [trace[p] EXCEPT !.creates = @ + 1])
          /\ ret' = ret
  /\ UNCHANGED << remote, faults, raceFrame, docLocal, group >>

\* response = self.qb_client.create_invoice(invoice_data): the remote answers
RaceCreateAnswered(p) ==
  /\ pc[p] = "inv_create_wait"
  /\ \E ans \in Answers :
       LET invoice_data == [CustomerRef |-> customer_id[p], DocNumber |-> group[p].inv,
                            Line |-> lines[p]]
       IN /\ faults' = FaultsAfter(ans)
          /\ ret' = Only(p, ret, create_invoice(invoice_data, ans))
          /\ qbInvoices' = DocsAfterPost("Invoice", qbInvoices, invoice_data, ans)
  /\ ncalls' = Only(p, ncalls, ncalls[p] - 1)
  /\ pc' = Only(p, pc, "doc_ret")
  /\ UNCHANGED << qbCustomers, qbIndexed, qbItems, qbReceipts, raceFrame, docLocal, group,
                  trace >>

\* create_sales_receipt sends its create without any lookup
RaceReceiptSent(p) ==
  /\ pc[p] = "rcpt"
  /\ ncalls[p] < 2
  /\ RaceSends(p, "rcpt_wait")
  /\ trace' = Only(p, trace, [trace[p] EXCEPT !.pre = qbReceipts, !.creates = @ + 1])
  /\ UNCHANGED << remote, faults, raceFrame, docLocal, group, ret >>

\* response = self.qb_client.create_sales_receipt(receipt_data): the answer
RaceReceiptAnswered(p) ==
  /\ pc[p] = "rcpt_wait"
  /\ \E ans \in Answers :
       LET receipt_data == [CustomerRef |-> customer_id[p], DocNumber |-> group[p].inv,
                            Line |-> lines[p]]
       IN /\ faults' = FaultsAfter(ans)
          /\ ret' = Only(p, ret, create_sales_receipt(receipt_data, ans))
          /\ qbReceipts' = DocsAfterPost("SalesReceipt", qbReceipts, receipt_data, ans)
  /\ ncalls' = Only(p, ncalls, ncalls[p] - 1)
  /\ pc' = Only(p, pc, "doc_ret")
  /\ UNCHANGED << qbCustomers, qbIndexed, qbItems, qbInvoices, raceFrame, docLocal, group,
                  trace >>

NextRace ==
  \/ \E p \in Procs : RaceCall(p)
  \/ \E p \in Procs : RaceFindSent(p)
  \/ \E p \in Procs : RaceFindAnswered(p)
  \/ \E p \in Procs : RaceSubmitSent(p)
  \/ \E p \in Procs : RaceCreateAnswered(p)
  \/ \E p \in Procs : RaceReceiptSent(p)
  \/ \E p \in Procs : RaceReceiptAnswered(p)

SpecRace == InitRace /\ [][NextRace]_vars

\* ------------- specification: threads that share one QuickBooksAuth
\* Several threads call get_valid_access_token on one QuickBooksAuth whose
\* access token has expired. Each statement that reads or writes _lock or
\* _tokens is a step of its own; pc, ret and ncalls hold one value per thread,
\* ncalls[t] counting the refresh requests of thread t that are in flight.
Threads == {1, 2}
expires_in == 3600    \* the lifetime the token endpoint grants

InitAuth ==
  /\ InitRemote
  /\ faults = MaxFaults
  /\ qbStrictDocNumbers = FALSE
  /\ auth = NoAuth
  /\ batch = <<>> /\ gi = 0 /\ results = <<>> /\ log_stream = {} /\ success = FALSE
  /\ nbatches = 0 /\ ri = 0 /\ item_cache = EmptyDict /\ existing_item = NoItem
  /\ full_display_name = <<>> /\ attempt = 0 /\ hist = NoHist
  /\ group = NoGroup /\ customer_id = None /\ lines = <<>> /\ existing = EmptyDict
  /\ trace = NoTrace
  /\ pc = [t \in Threads |-> "idle"]
  /\ ret = [t \in Threads |-> Return(None)]
  /\ ncalls = [t \in Threads |-> 0]

\* what no step of this specification changes
authFrame == << remote, qbStrictDocNumbers, orchLocal, docLocal, prodLocal, group,
                full_display_name, attempt, trace, hist >>

\* thread t moves to position p
Goes(t, p) == pc' = [pc EXCEPT ![t] = p]

\* get_valid_access_token() is called: self._refresh_token_if_needed()
AuthCall(t) ==
  /\ pc[t] = "idle"
  /\ Goes(t, "expiry")
  /\ UNCHANGED << authFrame, faults, auth, ret, ncalls >>

\* if expires_at > now + 300: return
AuthCheckExpiry(t) ==
  /\ pc[t] = "expiry"
  /\ LET expires_at == auth._tokens.expires_at
     IN IF expires_at > now + 300 THEN Goes(t, "token") ELSE Goes(t, "lock_test")
  /\ UNCHANGED << authFrame, faults, auth, ret, ncalls >>

\* if self._lock:
AuthTestLock(t) ==
  /\ pc[t] = "lock_test"
  /\ IF auth._lock THEN Goes(t, "wait") ELSE Goes(t, "lock_set")
  /\ UNCHANGED << authFrame, faults, auth, ret, ncalls >>

\* while self._lock: time.sleep(0.1), then return: the loop is left once the
\* flag reads False
AuthWait(t) ==
  /\ pc[t] = "wait"
  /\ ~auth._lock
  /\ Goes(t, "token")
  /\ UNCHANGED << authFrame, faults, auth, ret, ncalls >>

\* self._lock = True
AuthSetLock(t) ==
  /\ pc[t] = "lock_set"
  /\ auth' = [auth EXCEPT !._lock = TRUE]
  /\ Goes(t, "refresh")
  /\ UNCHANGED << authFrame, faults, ret, ncalls >>

\* requests.post(self.token_url, ...) is sent
AuthRefreshSent(t) ==
  /\ pc[t] = "refresh"
  /\ ncalls' = [ncalls EXCEPT ![t] = @ + 1]
  /\ Goes(t, "refresh_wait")
  /\ UNCHANGED << authFrame, faults, auth, ret >>

\* the token endpoint answers: response.raise_for_status(), the update of
\* self._tokens, or the except clause that re-raises
AuthRefreshAnswered(t) ==
  /\ pc[t] = "refresh_wait"
  /\ \E ans \in {"ok"} \cup (IF faults > 0 THEN AuthFailures ELSE {}) :
       /\ faults' = FaultsAfter(ans)
       /\ IF ans = "ok"
          THEN /\ auth' = [auth EXCEPT
                             !._tokens.access_token = @ + 1,
                             !._tokens.expires_at = now + expires_in - 60]
               /\ ret' = ret
          ELSE /\ auth' = auth
               /\ ret' = [ret EXCEPT ![t] =
                            Raise("HTTPError", IF ans = "auth400" THEN 400 ELSE 401,
                                  HttpErrorText(IF ans = "auth400" THEN 400 ELSE 401),
                                  {SomeText})]
  /\ ncalls' = [ncalls EXCEPT ![t] = @ - 1]
  /\ Goes(t, "unlock")
  /\ UNCHANGED authFrame

\* finally: self._lock = False; an exception then leaves the call
AuthUnlock(t) ==
  /\ pc[t] = "unlock"
  /\ auth' = [auth EXCEPT !._lock = FALSE]
  /\ Goes(t, IF ret[t].cls = "return" THEN "token" ELSE "auth_ret")
  /\ UNCHANGED << authFrame, faults, ret, ncalls >>

\* token = self._tokens.get("access_token"); return token
AuthToken(t) ==
  /\ pc[t] = "token"
  /\ ret' = [ret EXCEPT ![t] = Return(auth._tokens.access_token)]
  /\ Goes(t, "auth_ret")
  /\ UNCHANGED << authFrame, faults, auth, ncalls >>

NextAuth ==
  \/ \E t \in Threads : AuthCall(t)
  \/ \E t \in Threads : AuthCheckExpiry(t)
  \/ \E t \in Threads : AuthTestLock(t)
  \/ \E t \in Threads : AuthWait(t)
  \/ \E t \in Threads : AuthSetLock(t)
  \/ \E t \in Threads : AuthRefreshSent(t)
  \/ \E t \in Threads : AuthRefreshAnswered(t)
  \/ \E t \in Threads : AuthUnlock(t)
  \/ \E t \in Threads : AuthToken(t)

SpecAuth == InitAuth /\ [][NextAuth]_vars

\* ================================================================ claims

\* C3: two resolutions of the same display name return the same remote
\* customer id, and the remote never holds two customers with one display
\* name, even when the remote's index lags behind a create.
C3_SameNameSameId ==
  /\ \A a \in hist.resolved : \A b \in hist.resolved : a[1] = b[1] => a[2] = b[2]
  /\ \A i \in 1..Len(qbCustomers) : \A j \in 1..Len(qbCustomers) :
       qbCustomers[i].DisplayName = qbCustomers[j].DisplayName => i = j

\* C4: a second find_or_create_customer call with the same identity, with the
\* remote (customers and index) as the first call left it, returns the id the
\* first call returned; and a call whose exact-match query finds the customer
\* returns without issuing a create.
C4_Idempotent ==
  /\ ( /\ pc = "cust_ret"
       /\ ret.cls = "return"
       /\ hist.prev.id # None
       /\ hist.prev.name = full_display_name
       /\ hist.prev.snap = << qbCustomers, qbIndexed >> )
     => ret.val = hist.prev.id
  /\ (pc = "cust_ret" /\ trace.via = "exact") => (trace.creates = 0 /\ ret.cls = "return")

\* C9: a call makes at most 3 create attempts; once a create was answered
\* with a duplicate-name error the call returns only an id that a re-query
\* found in the remote's index, never an empty id; and when every re-query
\* missed through the last attempt, the call ends by raising an error.
C9_DuplicateRecovery ==
  /\ trace.creates <= CustomerAttempts
  /\ attempt <= CustomerAttempts
  /\ trace.misses <= CustomerAttempts + 1
  /\ (pc = "cust_ret" /\ trace.dup /\ ret.cls = "return")
       => /\ trace.via \in {"requery", "fallback"}
          /\ ret.val # None
          /\ ret.val \in qbIndexed
  /\ (pc = "cust_ret" /\ trace.dup /\ trace.via \notin {"requery", "fallback"})
       => /\ ret.cls # "return"
          /\ ret.val = None

\* C9 witness: a call that met a duplicate-name error has returned the id its
\* re-query found
C9_Witness ==
  /\ pc = "cust_ret"
  /\ trace.dup
  /\ trace.via = "requery"
  /\ ret.cls = "return"

\* ------------------------------------------------------- items (SpecProduct)
\* the items the remote held under the looked-up name when the call started
PreExisting ==
  { i \in 1..Len(trace.pre) : LowerStr(trace.pre[i].Name) = LowerStr(service_name(Row)) }

\* C5: a service that an earlier call resolved to an item resolves to the same
\* item id again, without a create request once a new run has emptied the
\* cache, and the remote holds at most one item per name.
C5_SameServiceSameItem ==
  /\ (pc = "item_ret" /\ ~trace.bad)
       => \A h \in hist.items :
            (h[1] = Row.ps /\ h[2] = Row.desc)
              => (ret.cls = "return" /\ ret.val = h[3] /\ trace.creates = 0)
  /\ \A i \in 1..Len(qbItems) : \A j \in 1..Len(qbItems) :
       LowerStr(qbItems[i].Name) = LowerStr(qbItems[j].Name) => i = j

\* C6: when the remote holds an item of the service's name with another income
\* account, the call returns a newly created item named base + suffix with the
\* desired account; when the account matches, it returns that item and creates
\* nothing.
C6_AccountMismatch ==
  (pc = "item_ret" /\ ~trace.bad /\ trace.via # "cache")
    => \A i \in PreExisting :
         IF trace.pre[i].IncomeAccountRef = desired_account_ref(Row)
         THEN ret.cls = "return" /\ ret.val = i /\ trace.creates = 0
         ELSE /\ ret.cls = "return" /\ ret.val # i
              /\ trace.creates = 1
              /\ qbItems[ret.val].IncomeAccountRef = desired_account_ref(Row)
              /\ Len(qbItems[ret.val].Name) > Len(sanitized_base(Row))
              /\ Take(qbItems[ret.val].Name, Len(sanitized_base(Row))) = sanitized_base(Row)

\* C10: a call whose create request was answered with the duplicate-name fault
\* returns the id of the item that holds the name.
C10_ItemDuplicateRecovered ==
  (pc = "item_ret" /\ trace.dup /\ ~trace.bad)
    => (ret.cls = "return" /\ ret.val = IdInText(final_name(Row, existing_item, <<"7">>)))

\* -------------------------------------------------- invoices (SpecInvoice)
\* the invoices the remote held under the call's number when the call started
HeldBefore == { i \in 1..Len(trace.pre) : trace.pre[i].DocNumber = doc_number }

\* C1: the remote never holds two invoices with one DocNumber, and a call for
\* a number the remote already holds creates nothing.
C1_OneInvoicePerNumber ==
  /\ \A i \in 1..Len(qbInvoices) : \A j \in 1..Len(qbInvoices) :
       qbInvoices[i].DocNumber = qbInvoices[j].DocNumber => i = j
  /\ (pc = "inv_ret" /\ HeldBefore # {}) => trace.creates = 0

\* C2: a call for a number the remote holds, whose requests the remote all
\* answers, returns normally after one update and no create, and the invoice
\* then holds its earlier lines followed by the new lines.
C2_AppendsToExisting ==
  (pc = "inv_ret" /\ ~trace.bad /\ HeldBefore # {})
    => /\ ret.cls = "return"
       /\ trace.creates = 0
       /\ Len(qbInvoices) = Len(trace.pre)
       /\ \A i \in HeldBefore :
            /\ Len(qbInvoices[i].Line) = Len(trace.pre[i].Line) + Len(lines)
            /\ SubSeq(qbInvoices[i].Line, 1, Len(trace.pre[i].Line)) = trace.pre[i].Line

\* ------------------------------------------------------- batches (Spec)
\* the statuses of the result list, in order
Statuses == [i \in 1..Len(results) |-> results[i].status]

\* C7: a group that raises gets exactly one error result and the groups after
\* it are processed; a batch of three groups of which only the second raises,
\* in customer resolution after its retries, ends with the results success,
\* error, success and returns success = true.
C7_GroupFailureIsolated ==
  pc = "done" =>
    /\ gi = Len(batch) + 1
    /\ \A k \in 1..Len(hist.cur.raised) :
         LET inv == batch[hist.cur.raised[k].gi].inv
         IN /\ Cardinality({ i \in 1..Len(results) : results[i].invoice = inv }) = 1
            /\ \A i \in 1..Len(results) :
                 results[i].invoice = inv => results[i].status = "error"
    /\ ( /\ Len(batch) = 3
         /\ hist.cur.raised = << [gi |-> 2, stage |-> "customer", cls |-> "RuntimeError"] >> )
         => (Statuses = << "success", "error", "success" >> /\ success = TRUE)

\* C8: the flag a batch returns is true exactly when no token refresh failed
\* during the batch.
C8_SuccessIffNoFatal ==
  pc = "done" => (success = ~hist.cur.auth)

\* ------------------------------------------- error handling (C11 .. C13)
\* C11: a transient fault on a customer create is retried until the attempts
\* are used up: a find_or_create_customer call makes at most 3 creates, and
\* one that ends by raising the timeout of a create has made all 3.
C11_TransientRetried ==
  /\ trace.creates <= CustomerAttempts
  /\ (pc = "cust_ret" /\ ret.cls = "Timeout") => trace.creates = CustomerAttempts

\* C12: the invoice lookup reads "not found" from a query that failed and
\* reads the invoice from a query the remote answered: after the lookup of a
\* number the remote holds, the invoice is found exactly when the query
\* succeeded.
C12_QueryDegrades ==
  (pc = "inv_submit" /\ HeldBefore # {})
    => (InvoiceFound(existing) <=> ~trace.bad)

\* the fault of a response body, and whether it reports a taken name
FaultOf(resp) == resp["Fault"]["Error"][1]
ReportsDuplicateName(resp) ==
  \/ FaultOf(resp).code = "6240"
  \/ "Duplicate Name Exists" \in (FaultOf(resp).Message \cup FaultOf(resp).Detail)

C14_ParseFailureIsFatal ==
  [][ (pc' = "done" /\ ~hist'.cur.readable)
        => (pc = "idle" /\ success' = FALSE /\ results' = <<>>
            /\ remote' = remote /\ faults' = faults) ]_vars

\* C14 witness: a call for an unreadable file has ended
C14_Witness ==
  /\ pc = "done"
  /\ ~hist.cur.readable
  /\ success = FALSE

\* --------------------------------------------------- lines (C15 .. C18)
\* the groups of the batch none of whose rows has a total above 0
Unbillable ==
  { k \in 1..Len(batch) : \A i \in 1..Len(batch[k].rows) : batch[k].rows[i].total <= 0 }

\* C15: when a batch has ended in a process whose requests the remote has all
\* answered and whose customers were all resolved, a group without a row of
\* total > 0 has no invoice and no sales receipt in the remote and no error
\* result, and a batch of only such groups that started with a clean log
\* returns true.
C15_EmptyGroupSkipped ==
  ( /\ pc = "done" /\ hist.cur.readable /\ faults = MaxBatchFaults
    /\ \A j \in 1..Len(hist.cur.raised) : hist.cur.raised[j].stage # "customer" ) =>
    /\ \A k \in Unbillable :
         /\ \A i \in 1..Len(qbReceipts) : qbReceipts[i].DocNumber # batch[k].inv
         /\ \A i \in 1..Len(qbInvoices) : qbInvoices[i].DocNumber # batch[k].inv
         /\ \A i \in 1..Len(results) :
              results[i].invoice = batch[k].inv => results[i].status # "error"
    /\ (Unbillable = 1..Len(batch) /\ hist.cur.startlog \cap FatalMarkers = {})
         => success = TRUE

\* the rows among the first k of the group that have a total above 0, in order
Billable(k) ==
  SelectSeq([i \in 1..k |-> i], LAMBDA i : group.rows[i].total > 0)

\* C16: build_lines has no line for a row whose Total Amount cell holds zero,
\* a negative amount or no amount, for invoices and for receipts: the cell
\* parses to an amount of at most 0, and the lines built so far are those of
\* the rows of total > 0 among the rows handled, in the order of the rows.
C16_NoLineWithoutAmount ==
  group # NoGroup =>
    /\ \A i \in 1..Len(group.rows) :
         group.rows[i].totalCell \in NoAmountCells => group.rows[i].total <= 0
    /\ Len(lines) <= Len(Billable(ri - 1))
    /\ \A j \in 1..Len(lines) :
         lines[j].Description = Strip(group.rows[Billable(ri - 1)[j]].desc)
    /\ (~for_invoice \/ pc = "doc") => Len(lines) = Len(Billable(ri - 1))

\* C16 witness: build_lines has returned lines for a group that has a row
\* without amount followed by a row with one
C16_Witness ==
  /\ pc = "doc"
  /\ Len(group.rows) = 3
  /\ Len(lines) = 2

\* the item of every row handled was resolved
ItemsResolved == \A j \in 1..Len(hist.cur.raised) : hist.cur.raised[j].stage # "item"

\* C17: when build_lines has ended for an insurance group whose items were
\* resolved, it has one line per row of total T > 0, with Qty = 1, UnitPrice
\* and Amount = T rounded half-up to cents, and a description that contains
\* "Qty: N" when the row's quantity N is not 1.
C17_InsuranceLineShape ==
  (pc \in {"doc", "finish"} /\ for_invoice /\ ItemsResolved) =>
    LET B == Billable(Len(group.rows))
    IN /\ Len(lines) = Len(B)
       /\ \A j \in 1..Len(lines) :
            LET row == group.rows[B[j]]
            IN /\ lines[j].Qty = 1
               /\ lines[j].UnitPrice = QuantizeHalfUp(row.total)
               /\ lines[j].Amount = QuantizeHalfUp(row.total)
               /\ row.qty # 1 => Contains(lines[j].Description, <<"Q","t","y",":"," ">> \o IntText(row.qty))

\* C18: a line of a cash group has the row's quantity as Qty, the row's unit
\* cost as UnitPrice, and quantity x unit cost rounded half-up to cents as
\* Amount.
C18_CashLineAmount ==
  (group # NoGroup /\ ~for_invoice) =>
    \A j \in 1..Len(lines) :
      LET row == group.rows[Billable(ri - 1)[j]]
      IN /\ lines[j].Qty = row.qty
         /\ lines[j].UnitPrice = row.cost
         /\ lines[j].Amount = QuantizeHalfUp(row.qty * row.cost)

\* ----------------------------------------------- classification (C19, C20)
\* the known insurers that a token of the group's Mode of Payment names
InsurersNamed(g) ==
  { k \in 1..Len(KNOWN_INSURANCES) :
      \E t \in { Strip(SplitOn(g.mode, {","}, <<>>)[i]) :
                   i \in 1..Len(SplitOn(g.mode, {","}, <<>>)) } :
        UpperStr(t) = KNOWN_INSURANCES[k] }

\* the kind the groups of Invoice No. n are to get
KindOf(n) ==
  LET g == CHOOSE g \in UNION { { b[i] : i \in 1..Len(b) } : b \in Batches } : g.inv = n
  IN IF (\E i \in 1..Len(g.rows) : g.rows[i].ins = Yes) /\ InsurersNamed(g) # {}
     THEN "invoice" ELSE "sales_receipt"

ReceiptsNumbered(docs, n) == { i \in 1..Len(docs) : docs[i].DocNumber = n }

\* C20: the receipt step sends one create and looks nothing up, so a cash
\* group that is processed again gets a second receipt: at the end of a run in
\* which every request was answered normally, on a remote that accepts a
\* document number that is taken, every cash group of the file with an amount
\* whose number had a receipt before the run has one receipt more.
C20_RerunDuplicatesReceipt ==
  ( /\ pc = "done" /\ hist.cur.readable /\ faults = MaxBatchFaults
    /\ ~qbStrictDocNumbers
    /\ \A i \in 1..Len(hist.cur.raised) : hist.cur.raised[i].stage # "customer" ) =>
    \A i \in 1..Len(batch) :
      LET n == batch[i].inv
      IN ( /\ KindOf(n) = "sales_receipt"
           /\ i \notin Unbillable
           /\ ReceiptsNumbered(hist.cur.receipts, n) # {} ) =>
           Cardinality(ReceiptsNumbered(qbReceipts, n))
             = Cardinality(ReceiptsNumbered(hist.cur.receipts, n)) + 1


\* ------------------------------------------------- order of the groups (C21)
\* the place of invoice number n in the file of the current run
FilePlace(n) == CHOOSE k \in 1..Len(hist.cur.file) : hist.cur.file[k] = n

\* C21 as stated: the results of a run are recorded in the order in which
\* their invoice numbers first appear in the file.
C21_InputOrder ==
  \A i, j \in 1..Len(results) :
    i < j => FilePlace(results[i].invoice) < FilePlace(results[j].invoice)

\* C21 amended: the groups are processed, and their results recorded, in
\* ascending order of their invoice numbers compared as text, whatever the
\* order of the file: the groups of the run are in key order, the results are
\* in key order, and each result is of the current group or of one before it.
C21_KeyOrder ==
  /\ \A i, j \in 1..Len(batch) : i < j => KeyLess(batch[i].inv, batch[j].inv)
  /\ \A i, j \in 1..Len(results) :
       i < j => KeyLess(results[i].invoice, results[j].invoice)
  /\ \A i \in 1..Len(results) :
       \E k \in 1..Len(batch) : k <= gi /\ batch[k].inv = results[i].invoice
  /\ (pc \in {"cust_find", "cust_create", "line", "doc"} /\ batch # <<>>) =>
       group = batch[gi]

\* C21 witness: a run of a file that lists invoice 3 before invoice 1 has
\* ended with the result of invoice 1 recorded before the result of invoice 3
C21_Witness ==
  /\ pc = "done"
  /\ Len(hist.cur.file) = 3 /\ hist.cur.file[1] = 3 /\ hist.cur.file[3] = 1
  /\ Len(results) = 3 /\ results[1].invoice = 1 /\ results[3].invoice = 3

\* ------------------------------------------------- income account (C22)
\* the account of a service category under a lookup that ignores letter case
\* and reads "&" as "and"; the default account for a category not listed
CategoryAccount(ps) ==
  LET n == LowerStr(Replace(Strip(ps), <<"&">>, <<"a","n","d">>))
      known == { k \in DOMAIN exact_map : LowerStr(k) = n }
  IN IF known # {} THEN exact_map[CHOOSE k \in known : TRUE] ELSE "13"

\* C22: the item a call creates carries the income account of the row's
\* service category, looked up without regard to letter case and with "&"
\* read as "and"; only a category that is not listed gets the default account.
C22_AccountOfCategory ==
  (pc = "item_ret" /\ ret.cls = "return" /\ trace.via # "cache" /\ trace.creates > 0) =>
    qbItems[ret.val].IncomeAccountRef = CategoryAccount(Row.ps)

\* ------------------------------------------------------ the parser (C23..C27)
\* C23: neither money normalizer raises, and each returns 0 where the residue
\* of digits, '.' and '-' is empty, '.', '-' or no decimal, and the decimal
\* value of the residue otherwise.
C23_MoneyNeverRaises ==
  pc = "money" =>
    /\ existing.parsed = MoneyExpected(existing.value)
    /\ ret.cls = "return"
    /\ ret.val = MoneyExpected(existing.value)

\* the quantity of a cell under the rule: 1 for a missing, unparsable, zero or
\* negative quantity, the integer otherwise
QuantityExpected(text) ==
  IF ParseDecimal(text).ok /\ ParseDecimal(text).v >= 1000 THEN ParseDecimal(text).v \div 1000
  ELSE 1

\* C24: the parsed Quantity of a row is 1 where the file's quantity is
\* missing, unparsable, zero or negative, and the integer of the file
\* otherwise; it is never <= 0.
C24_QuantityAtLeastOne ==
  (pc = "parsed" /\ ret.cls = "return") =>
    /\ ret.val["Quantity"].t = "int"
    /\ ret.val["Quantity"].n >= 1
    /\ ret.val["Quantity"].n
         = (IF "Quantity" \in existing.header
            THEN QuantityExpected(existing.cells["Quantity"]) ELSE 1)

\* C25: after parsing, "Is Insurance?" is "Yes" for yes / y / true in any
\* letter case and "No" for every other value.
C25_FlagYesOrNo ==
  (pc = "parsed" /\ ret.cls = "return") =>
    ret.val["Is Insurance?"]
      = StrCell(IF /\ "Is Insurance?" \in existing.header
                   /\ Strip(LowerStr(existing.cells["Is Insurance?"]))
                        \in { <<"y","e","s">>, <<"y">>, <<"t","r","u","e">> }
                THEN Yes ELSE No)

C27_MissingColumnsRaise ==
  (pc = "parsed" /\ existing.readable /\ ~(ParsedColumns \subseteq existing.header)) =>
    ret.cls = "ValueError"

\* ------------------------------------------------------ the decoder (C28)
\* out is raw with 0 in the place of each null of a known-numeric field, at
\* any depth, and nothing else changed
RECURSIVE SanitizedFrom(_, _)
SanitizedFrom(raw, out) ==
  IF raw.j = "obj"
  THEN /\ out.j = "obj"
       /\ DOMAIN out.f = DOMAIN raw.f
       /\ \A key \in DOMAIN raw.f :
            IF raw.f[key] = JNull /\ key \in numeric_fields
            THEN out.f[key] = JNum(0)
            ELSE SanitizedFrom(raw.f[key], out.f[key])
  ELSE IF raw.j = "list"
  THEN /\ out.j = "list"
       /\ Len(out.xs) = Len(raw.xs)
       /\ \A i \in 1..Len(raw.xs) : SanitizedFrom(raw.xs[i], out.xs[i])
  ELSE out = raw

\* C28: a decoded response has 0 in the place of every null of a known-numeric
\* field, in objects and in lists at any depth, and is the response otherwise.
C28_NullNumericsZeroed ==
  pc = "decoded" => (ret.cls = "return" /\ SanitizedFrom(existing.doc, ret.val))

\* C28 witness: a response with a null Amount in a line inside a list of the
\* lines, and a null DisplayName, has been decoded
C28_Witness ==
  /\ pc = "decoded"
  /\ existing.doc.f["DisplayName"] = JNull
  /\ ret.val.f["DisplayName"] = JNull
  /\ Len(existing.doc.f["Line"].xs) = 2
  /\ existing.doc.f["Line"].xs[2].xs[1].f["Amount"] = JNull
  /\ ret.val.f["Line"].xs[2].xs[1].f["Amount"] = JNum(0)

\* ------------------------------------------------ create_customer (C29)
\* C29: a create_customer call whose request the remote answers with the
\* created Customer sends that one request (one customer more in the remote)
\* and returns the response: the caller gets the Id of the customer created
\* under the name sent.
C29_CreateReturnsCustomer ==
  [][ (pc = "cust_create" /\ trace'.creates = trace.creates + 1
       /\ "Customer" \in DOMAIN trace'.last.resp) =>
        /\ trace'.last.err.cls = "return"
        /\ pc' = "cust_ret"
        /\ ret'.cls = "return"
        /\ ret'.val = trace'.last.resp["Customer"]["Id"]
        /\ Len(qbCustomers') = Len(qbCustomers) + 1
        /\ qbCustomers'[ret'.val].DisplayName = full_display_name
  ]_vars

\* C29 witness: a call has returned the Id of the customer its one create made
C29_Witness ==
  /\ pc = "cust_ret"
  /\ trace.via = "created" /\ trace.creates = 1
  /\ "Customer" \in DOMAIN trace.last.resp
  /\ ret.val = trace.last.resp["Customer"]["Id"]

\* ------------------------------------------------ order of the steps (C30)
\* numbers of groups for which the pause is computed, on both sides of the two
\* bounds
TotalsTried == { 1, 2, 3, 50, 3299, 3300, 3301, 5000, 10999, 11000, 11001, 20000 }

\* C30: a document is created or updated only in the document step of a group
\* whose customer id is resolved, whose lines all carry a resolved item id,
\* and for which the pause was taken after the customer call and before the
\* lines; the lines are built only after the pause; the pause is between 0.6
\* and 2.0 seconds and does not grow with the number of groups.
C30_StepsInOrder ==
  [][ /\ (qbReceipts' # qbReceipts \/ qbInvoices' # qbInvoices) =>
           /\ pc \in {"doc", "inv_submit"}
           /\ group = batch[gi]
           /\ customer_id \in 1..Len(qbCustomers)
           /\ lines # <<>>
           /\ \A j \in 1..Len(lines) : lines[j].ItemRef \in 1..Len(qbItems)
           /\ hist.cur.slept # <<>>
           /\ hist.cur.slept[Len(hist.cur.slept)].gi = gi
      /\ (pc' \in {"line", "item_find", "doc"}) =>
           /\ customer_id' # None
           /\ hist'.cur.slept # <<>>
           /\ hist'.cur.slept[Len(hist'.cur.slept)].gi = gi'
           /\ hist'.cur.slept[Len(hist'.cur.slept)].delay = delay(Len(batch'))
      /\ \A n \in TotalsTried :
           /\ 600 <= delay(n) /\ delay(n) <= 2000
           /\ \A m \in TotalsTried : m <= n => delay(n) <= delay(m)
  ]_vars

\* C30 witness: the receipt of the second group of a file of three has been
\* created after the pause of 2.0 seconds taken for that group
C30_Witness ==
  /\ pc = "group" /\ gi = 3
  /\ Len(hist.cur.slept) = 2 /\ hist.cur.slept[2] = [gi |-> 2, delay |-> 2000]
  /\ \E i \in 1..Len(results) : results[i].invoice = 2 /\ results[i].status = "success"

\* ---------------------------------------------- appending (SpecInvoice)
\* C31: a call for a number the remote holds, whose requests the remote all
\* answers, leaves the invoice with its earlier lines unchanged and in order,
\* followed by the new lines, the k-th of them (k from 0) numbered
\* (largest earlier line id) + 1 + k, so that no two lines of the invoice share
\* an id; the version the lookup read is the one the update was made on.
C31_AppendRenumbers ==
  (pc = "inv_ret" /\ ~trace.bad /\ HeldBefore # {})
    => \A i \in HeldBefore :
         LET before == trace.pre[i].Line
             after == qbInvoices[i].Line
         IN /\ after = before \o new_lines(before, lines)
            /\ \A k \in 1..Len(lines) : after[Len(before) + k].Id = MaxLineId(before) + k
            /\ \A a \in 1..Len(after) : \A b \in 1..Len(after) :
                 Get(after[a], "Id", 0) = Get(after[b], "Id", 0) => a = b
            /\ qbInvoices[i].Id = trace.pre[i].Id

\* ------------------------------------------- classification (SpecMapper)
\* the comma-separated tokens of a Mode of Payment, trimmed, that equal a
\* configured insurer name when case is ignored
InsurerTokens(mode) ==
  LET tokens == SplitOn(mode, {","}, <<>>)
  IN { i \in 1..Len(tokens) :
         \E k \in 1..Len(KNOWN_INSURANCES) :
           LowerStr(Strip(tokens[i])) = LowerStr(KNOWN_INSURANCES[k]) }

Numbered(n) ==
  { << "Invoice", i >> : i \in { i \in 1..Len(qbInvoices) : qbInvoices[i].DocNumber = n } }
    \cup { << "SalesReceipt", i >> :
             i \in { i \in 1..Len(qbReceipts) : qbReceipts[i].DocNumber = n } }

C34_ReturnedIdHasTheName ==
  (pc = "cust_ret" /\ ret.cls = "return")
    => /\ ret.val \in 1..Len(qbCustomers)
       /\ LowerStr(qbCustomers[ret.val].DisplayName) = LowerStr(full_display_name)

\* ------------------------------------------- item accounts (SpecProduct)
\* C35: every item id find_or_create_product returns, whether found, created,
\* recovered or served from the cache of the run, is the id of an item whose
\* income account is the account desired for the category of the row in hand;
\* so two rows with one description and categories of different accounts never
\* get one item id.
C35_ReturnedItemHasAccount ==
  (pc = "item_ret" /\ ret.cls = "return")
    => /\ ret.val \in 1..Len(qbItems)
       /\ qbItems[ret.val].IncomeAccountRef = desired_account_ref(Row)

EntriesOf(k) == { i \in 1..Len(results) : results[i].invoice = batch[k].inv }

\* the groups of the batch that the loop has finished with
GroupsDone == { k \in 1..Len(batch) : k < gi \/ pc \in {"finish", "done"} }

\* the groups that raised
GroupsRaised == { hist.cur.raised[j].gi : j \in 1..Len(hist.cur.raised) }

\* C37: the result list holds exactly one entry for every group the loop has
\* finished with that has a row of total > 0: a success entry with the id of
\* the remote document of the group's number and kind, or an error entry with
\* a message; it holds no entry for a group that was skipped for want of
\* lines, none for a group not yet finished, and never two for one group.
C37_OneResultPerGroup ==
  /\ \A k \in 1..Len(batch) :
       /\ Cardinality(EntriesOf(k)) <= 1
       /\ (k \in GroupsDone /\ k \notin Unbillable) => Cardinality(EntriesOf(k)) = 1
       /\ (k \in GroupsDone /\ k \in Unbillable /\ k \notin GroupsRaised) => EntriesOf(k) = {}
       /\ k \notin GroupsDone => EntriesOf(k) = {}
  /\ \A i \in 1..Len(results) :
       /\ \E k \in 1..Len(batch) : i \in EntriesOf(k)
       /\ IF results[i].status = "success"
          THEN /\ results[i].type = "sales_receipt"
               /\ results[i].transaction_id \in 1..Len(qbReceipts)
               /\ qbReceipts[results[i].transaction_id].DocNumber = results[i].invoice
          ELSE results[i].status = "error" /\ results[i].error # {}

\* C37 witness: a batch of three groups with amounts has ended with one entry
\* per group, success entries and an error entry among them
C37_Witness ==
  /\ pc = "done" /\ Len(batch) = 3 /\ Len(results) = 3
  /\ \E i \in 1..3 : results[i].status = "error"
  /\ \E i \in 1..3 : results[i].status = "success" /\ results[i].transaction_id >= 1

\* ------------------------------------------- the lines built (SpecLines)
\* C38: every line build_lines has built, for an invoice or for a receipt, has
\* Qty > 0 and Amount > 0, and its Amount is Qty x UnitPrice rounded to cents;
\* so also the line of a cash row whose quantity is 0 or negative while its
\* total amount is positive.
C38_LinesPositive ==
  \A j \in 1..Len(lines) :
    /\ lines[j].Qty > 0
    /\ lines[j].Amount > 0
    /\ lines[j].Amount \in { Quantize(lines[j].Qty * lines[j].UnitPrice),
                             QuantizeHalfUp(lines[j].Qty * lines[j].UnitPrice) }

\* ------------------------------------------------ what a group leaves (Spec)
\* the groups the loop has finished with that have no success entry
GroupsWithoutSuccess ==
  { k \in GroupsDone :
      \A i \in 1..Len(results) :
        results[i].invoice = batch[k].inv => results[i].status # "success" }

RefreshesInFlight == { t \in Threads : ncalls[t] > 0 }

\* C40: at most one token-refresh request is in flight at any time, and a
\* thread whose get_valid_access_token returned a token, after its own refresh
\* or after waiting for another thread's, returned a token that has not
\* expired (not the token that had expired when the calls started).
C40_OneRefreshFreshToken ==
  /\ Cardinality(RefreshesInFlight) <= 1
  /\ \A t \in Threads :
       (pc[t] = "auth_ret" /\ ret[t].cls = "return") =>
         ret[t].val # NoAuth._tokens.access_token

====
